---- MODULE Spec2Model ----
(***************************************************************************)
(* Request-security pipeline of the lead-capture API (src/server.js).      *)
(* server.js holds two servers: the first variant ("v1", express-validator *)
(* and three rate limiters) and the second variant ("v2", zod, csurf,      *)
(* authMiddleware/adminMiddleware).  A request is handled by running the   *)
(* route's middleware chain to completion; the host runtime does not       *)
(* preempt a synchronous handler.                                          *)
(***************************************************************************)
EXTENDS Integers, Sequences, FiniteSets, TLC

VARIABLES
    variant,      \* which server of server.js is running: "v1" or "v2"
    env,          \* process.env as read at startup
    phase,        \* "boot" | "serving" | "exited"
    users,        \* rows of table users (v2) / admins (v1)
    leads,        \* rows of table leads: id -> status
    nextLeadId,   \* AUTOINCREMENT counter of table leads
    now,          \* wall clock, milliseconds
    hits,         \* rate-limit store: limiter -> ip -> <<>> or <<[count, resetTime]>>
    stored,       \* the client's localStorage "token": <<>> or <<token>>
    last,         \* summary of the request handled at the current instant
    deploy,       \* what else the deployment fixes: the optional environment
                  \* variables and the installed express-rate-limit major version
    remote,       \* condition of the webhook endpoint: "ok" | "non2xx" | "neterr"
    client        \* the browser besides the stored token: the cached CSRF
                  \* token, the cookie jar and a log of the last call

vars == <<variant, env, phase, users, leads, nextLeadId, now, hits, stored, last,
          deploy, remote, client>>

-----------------------------------------------------------------------------
(* Bounds of the model *)

MaxDays == 7        \* the clock stops after this many days
MaxHits == 2        \* requests counted per client and limiter in one window
MaxOver == 1        \* requests sent beyond a limiter's maximum in one window

-----------------------------------------------------------------------------
(* Values *)

None    == <<>>
Some(v) == <<v>>
IsSome(o) == o # <<>>
Get(o)  == o[1]
Range(o) == {o[i] : i \in DOMAIN o}

Rep(c, n) == [i \in 1..n |-> c]

\* JS truthiness of a string-or-undefined: undefined and "" are falsy
Falsy(s) == s = <<>>

IPs == {"10.0.0.1"}
\* a second client, and the keys the rate-limit store may hold
OtherIPs == {"10.0.0.2"}
Addresses == IPs \cup OtherIPs

\* strings are sequences of characters
UpperChars == {"A"}
LowerChars == {"a", "g", "u", "x"}
DigitChars == {"1"}

AdminEmail == <<"a", "@", "x">>
UserEmail  == <<"u", "@", "x">>
GhostEmail == <<"g", "@", "x">>
NotAnEmail == <<"a", "x">>

Strong12   == <<"A", "1", "!">> \o Rep("a", 9)
Short11    == <<"A", "1", "!">> \o Rep("a", 8)
NoUpper12  == <<"a", "1", "!">> \o Rep("a", 9)
NoLower12  == <<"A", "1", "!">> \o Rep("A", 9)
NoDigit12  == <<"A", "a", "!">> \o Rep("a", 9)
NoSpecial12 == <<"A", "1", "a">> \o Rep("a", 9)
UserPw     == <<"A", "1", "!">> \o Rep("u", 9)
WrongPw    == <<"x", "x", "x", "x", "x", "x">>

\* a user name the registration route accepts, and registration secrets
NewUsername == <<"g", "u", "x">>
RegSecret   == <<"r", "e", "g">>
WrongRegSecret == <<"n", "o">>

SecretOk32    == Rep("k", 32)
SecretShort31 == Rep("k", 31)
ForgedKey     == Rep("z", 32)

-----------------------------------------------------------------------------
(* Program constants *)

MinSecretLen   == 32
FallbackSecret == Rep("f", 33)       \* 'seu-secret-super-seguro-mude-isso'
MinPasswordLen == 12
BcryptRounds   == 12

TokenTtlV1 == 24 * 3600              \* expiresIn: '24h', seconds
TokenTtlV2 == 7 * 24 * 3600          \* expiresIn: '7d', seconds

\* rateLimit({ windowMs, max }) of the five limiters
Limiter(name) ==
    CASE name = "generalLimiter"        -> [windowMs |-> 15 * 60 * 1000, max |-> 100]
      [] name = "strictLimiter"         -> [windowMs |-> 60 * 60 * 1000, max |-> 5]
      [] name = "leadSubmissionLimiter" -> [windowMs |-> 60 * 60 * 1000, max |-> 3]
      [] name = "loginLimiter"          -> [windowMs |-> 15 * 60 * 1000, max |-> 5]
      [] name = "leadsLimiter"          -> [windowMs |-> 60 * 60 * 1000, max |-> 3]

LimiterNames == {"generalLimiter", "strictLimiter", "leadSubmissionLimiter",
                 "loginLimiter", "leadsLimiter"}

LeadStatuses == {"new", "contacted", "converted"}

-----------------------------------------------------------------------------
(* Pure functions *)

\* the highest id of a table: AUTOINCREMENT gives the next one
MaxId(rows) == IF rows = {} THEN 0 ELSE CHOOSE n \in {r.id : r \in rows} :
                                            \A r \in rows : r.id <= n

HasChar(s, cs) == \E i \in 1..Len(s) : s[i] \in cs

\* passwordSchema: min(12) and the four regex rules
PasswordOk(s) ==
    /\ Len(s) >= MinPasswordLen
    /\ HasChar(s, UpperChars)
    /\ HasChar(s, LowerChars)
    /\ HasChar(s, DigitChars)
    /\ \E i \in 1..Len(s) : s[i] \notin (UpperChars \cup LowerChars \cup DigitChars)

\* z.string().email(): something@something
IsEmail(s) ==
    \E i \in 2..(Len(s) - 1) : s[i] = "@" /\ \A j \in 1..Len(s) : j # i => s[j] # "@"

\* bcryptjs.hashSync / compareSync
BcryptHash(pw, rounds) == [rounds |-> rounds, of |-> pw]
BcryptCompare(pw, hash) == hash.of = pw

\* the JWT secret the running server signs and verifies with
SigningSecret(v, e) ==
    IF v = "v1"
    THEN (IF Falsy(e.JWT_SECRET) THEN FallbackSecret ELSE e.JWT_SECRET)
    ELSE e.JWT_SECRET

\* HMAC-SHA256 of a payload under a secret; a secret is told apart by its
\* first character and its length
Hmac(p, secret) ==
    [over |-> p, key |-> <<IF secret = <<>> THEN "" ELSE secret[1], Len(secret)>>]

\* faulty variant: the lifetime in seconds is taken for milliseconds
JwtSign_TtlMillis(payload, secret, ttl, t) ==
    LET p == [id |-> payload.id, identity |-> payload.identity, role |-> payload.role,
              iat |-> t \div 1000, exp |-> (t \div 1000) + (ttl \div 1000)]
    IN  [payload |-> p, sig |-> Hmac(p, secret)]

\* faulty variant: the role is left out of the signed payload
JwtSign_NoRole(payload, secret, ttl, t) ==
    LET p == [id |-> payload.id, identity |-> payload.identity, role |-> None,
              iat |-> t \div 1000, exp |-> (t \div 1000) + ttl]
    IN  [payload |-> p, sig |-> Hmac(p, secret)]

\* jwt.sign(payload, secret, { expiresIn }): iat/exp are in seconds
JwtSign(payload, secret, ttl, t) ==
    LET p == [id |-> payload.id, identity |-> payload.identity, role |-> payload.role,
              iat |-> t \div 1000, exp |-> (t \div 1000) + ttl]
    IN  [payload |-> p, sig |-> Hmac(p, secret)]

\* faulty variant: a token is still accepted at the instant it expires
JwtVerify_ExpInclusive(token, secret, t) ==
    IF /\ token.sig = Hmac(token.payload, secret)
       /\ (t \div 1000) <= token.payload.exp
    THEN Some(token.payload)
    ELSE None

\* jwt.verify(token, secret): the payload, or None when it throws
JwtVerify(token, secret, t) ==
    IF /\ token.sig = Hmac(token.payload, secret)
       /\ (t \div 1000) < token.payload.exp
    THEN Some(token.payload)
    ELSE None

\* a token an attacker signs with a key of their own
ForgedToken ==
    LET p == [id |-> 1, identity |-> AdminEmail, role |-> Some("admin"),
              iat |-> 0, exp |-> 100 * TokenTtlV2]
    IN  [payload |-> p, sig |-> Hmac(p, ForgedKey)]

\* an issued token whose role was edited, signature left as it was
Tamper(tok) == [tok EXCEPT !.payload.role = Some("admin")]

\* csurf: token = salt '-' hash(salt '-' secret); verify recomputes the hash
CsrfCreate(secret, salt) == [salt |-> salt, mac |-> <<salt, secret>>]
CsrfVerify(secret, tok) == tok.mac = <<tok.salt, secret>>

-----------------------------------------------------------------------------
(* Requests, responses and the per-request context *)

Body(identity, password, status, name, whatsapp) ==
    [identity |-> identity, password |-> password, status |-> status,
     name |-> name, whatsapp |-> whatsapp, adminSecret |-> <<>>]

EmptyBody == Body(<<>>, <<>>, "", <<>>, <<>>)

\* authorization: the token of "Bearer <token>"; cookieToken: cookie "token";
\* csrfCookie: cookie "_csrf"; csrfHeader: header X-CSRF-Token
Req(ip, method, path, authorization, cookieToken, csrfCookie, csrfHeader, id, body) ==
    [ip |-> ip, method |-> method, path |-> path, authorization |-> authorization,
     cookieToken |-> cookieToken, csrfCookie |-> csrfCookie,
     csrfHeader |-> csrfHeader, id |-> id, body |-> body]

\* a response: status, the body's fields (error, token, user, csrfToken,
\* retryAfter) and the headers Retry-After and RateLimit-Reset, in seconds
Res(status, error) ==
    [status |-> status, error |-> error, token |-> None, user |-> None,
     csrfToken |-> None, retryAfter |-> None, retryAfterHeader |-> None,
     rateLimitReset |-> None, details |-> {}]

\* the context a middleware chain works on: req.user, the response once sent,
\* the middlewares that ran, and the stores the chain may write
Ctx(req) ==
    [req |-> req, user |-> None, res |-> None, ran |-> <<>>, key |-> None,
     hits |-> hits, leads |-> leads, nextLeadId |-> nextLeadId,
     users |-> users, outbox |-> <<>>]

Send(c, res) == [c EXCEPT !.res = Some(res)]

-----------------------------------------------------------------------------
(* Middlewares *)

CeilDiv(a, b) == (a + b - 1) \div b

\* faulty variant: the refusal carries no header at all
TooMany_NoHeaders(name, cur) == Res(429, "Too many requests")

\* the refusal of a limiter. The handlers write a body with the single field
\* error; the library adds the headers (standardHeaders: true): RateLimit-Reset
\* is the time to the window's reset in whole seconds, Retry-After is the
\* window length in major version 6 and the time to the reset in version 7
TooMany(name, cur) ==
    [Res(429, "Too many requests") EXCEPT
        !.retryAfterHeader =
            Some(IF deploy.rateLimit = "v6"
                 THEN CeilDiv(Limiter(name).windowMs, 1000)
                 ELSE CeilDiv(cur.resetTime - now, 1000)),
        !.rateLimitReset = Some(CeilDiv(cur.resetTime - now, 1000))]

\* faulty variant: the request that reaches the limit is already refused
RateLimit_OffByOne(name, c) ==
    LET lim == Limiter(name)
        e   == c.hits[name][c.req.ip]
        cur == IF IsSome(e) THEN Get(e)
               ELSE [count |-> 0, resetTime |-> now + lim.windowMs]
        n   == cur.count + 1
        c1  == [c EXCEPT !.hits[name][c.req.ip] = Some([cur EXCEPT !.count = n])]
    IN  IF n >= lim.max
        THEN Send(c1, TooMany(name, cur))
        ELSE c1

\* faulty variant: one counter per limiter, shared by all clients
\* faulty variant: the request that exceeds max by one still passes
RateLimit_OneMore(name, c) ==
    LET lim == Limiter(name)
        e   == c.hits[name][c.req.ip]
        cur == IF IsSome(e) THEN Get(e)
               ELSE [count |-> 0, resetTime |-> now + lim.windowMs]
        n   == cur.count + 1
        c1  == [c EXCEPT !.hits[name][c.req.ip] = Some([cur EXCEPT !.count = n])]
    IN  IF n > lim.max + 1
        THEN Send(c1, TooMany(name, cur))
        ELSE c1

RateLimit_SharedKey(name, c) ==
    LET lim == Limiter(name)
        key == CHOOSE ip \in IPs : TRUE
        e   == c.hits[name][key]
        cur == IF IsSome(e) THEN Get(e)
               ELSE [count |-> 0, resetTime |-> now + lim.windowMs]
        n   == cur.count + 1
        c1  == [c EXCEPT !.hits[name][key] = Some([cur EXCEPT !.count = n])]
    IN  IF n > lim.max
        THEN Send(c1, TooMany(name, cur))
        ELSE c1

\* express-rate-limit, fixed window per (limiter, client IP): the store holds
\* an entry from the first request of a window until the window's reset time
\* (see Expire); every request is counted, also a refused one
RateLimit(name, c) ==
    LET lim == Limiter(name)
        e   == c.hits[name][c.req.ip]
        cur == IF IsSome(e) THEN Get(e)
               ELSE [count |-> 0, resetTime |-> now + lim.windowMs]
        n   == cur.count + 1
        c1  == [c EXCEPT !.hits[name][c.req.ip] = Some([cur EXCEPT !.count = n])]
    IN  IF n > lim.max
        THEN Send(c1, TooMany(name, cur))
        ELSE c1

\* v1: Authorization header only; a bad token is answered 403
authenticateToken(c) ==
    LET token == c.req.authorization
        secret == SigningSecret(variant, env)
    IN  IF ~IsSome(token)
        THEN Send(c, Res(401, "Token de autenticação não fornecido"))
        ELSE LET decoded == JwtVerify(Get(token), secret, now)
                 c1 == [c EXCEPT !.key = Some(secret)]
             IN  IF IsSome(decoded)
                 THEN [c1 EXCEPT !.user = decoded]
                 ELSE Send(c1, Res(403, "Token inválido ou expirado"))

\* faulty variant: the cookie token is preferred to the header token
authMiddleware_CookieFirst(c) ==
    LET token == IF IsSome(c.req.cookieToken)
                 THEN c.req.cookieToken
                 ELSE c.req.authorization
    IN  IF ~IsSome(token)
        THEN Send(c, Res(401, "Token não fornecido"))
        ELSE LET decoded == JwtVerify(Get(token), env.JWT_SECRET, now)
                 c1 == [c EXCEPT !.key = Some(env.JWT_SECRET)]
             IN  IF IsSome(decoded)
                 THEN [c1 EXCEPT !.user = decoded]
                 ELSE Send(c1, Res(401, "Token inválido"))

\* v2: header token, else cookie token
authMiddleware(c) ==
    LET token == IF IsSome(c.req.authorization)
                 THEN c.req.authorization
                 ELSE c.req.cookieToken
    IN  IF ~IsSome(token)
        THEN Send(c, Res(401, "Token não fornecido"))
        ELSE LET decoded == JwtVerify(Get(token), env.JWT_SECRET, now)
                 c1 == [c EXCEPT !.key = Some(env.JWT_SECRET)]
             IN  IF IsSome(decoded)
                 THEN [c1 EXCEPT !.user = decoded]
                 ELSE Send(c1, Res(401, "Token inválido"))

\* faulty variant: any verified identity passes the role check
adminMiddleware_AnyUser(c) ==
    IF ~IsSome(c.user) THEN Send(c, Res(500, "TypeError")) ELSE c

\* v2: reading req.user.role of an absent req.user throws (500)
adminMiddleware(c) ==
    IF ~IsSome(c.user)
    THEN Send(c, Res(500, "TypeError"))
    ELSE IF Get(c.user).role # Some("admin")
         THEN Send(c, Res(403, "Acesso negado. Apenas administradores."))
         ELSE c

\* csurf with the secret in cookie _csrf; GET/HEAD/OPTIONS are not verified
CsrfIgnoredMethods == {"GET", "HEAD", "OPTIONS"}

\* faulty variant: the header has to be present, its value is not verified
csrfProtection_PresenceOnly(c) ==
    IF c.req.method \in CsrfIgnoredMethods \/ IsSome(c.req.csrfHeader)
    THEN c
    ELSE Send(c, Res(403, "invalid csrf token"))

csrfProtection(c) ==
    IF c.req.method \in CsrfIgnoredMethods
    THEN c
    ELSE IF /\ IsSome(c.req.csrfCookie)
            /\ IsSome(c.req.csrfHeader)
            /\ CsrfVerify(Get(c.req.csrfCookie), Get(c.req.csrfHeader))
         THEN c
         ELSE Send(c, Res(403, "invalid csrf token"))

-----------------------------------------------------------------------------
(* Route handlers *)

FreshCsrfSecret == 0
CsrfSalt == 1

UserByIdentity(c, identity) == {u \in users : u.email = identity}

\* v2 GET /api/csrf-token: req.csrfToken() over the cookie secret (a new
\* secret when the request has no _csrf cookie)
hCsrfToken(c) ==
    LET secret == IF IsSome(c.req.csrfCookie) THEN Get(c.req.csrfCookie)
                  ELSE FreshCsrfSecret
    IN  Send(c, [Res(200, "") EXCEPT !.csrfToken = Some(CsrfCreate(secret, CsrfSalt))])

\* faulty variant: an unknown identity is answered differently
UnknownUserRes_NotFound == Res(404, "Usuário não encontrado")

\* the two 401 answers of the v2 login handler: no such user, wrong password
UnknownUserRes == Res(401, "Credenciais inválidas")
WrongPasswordRes == Res(401, "Credenciais inválidas")

\* v2 POST /api/auth/login
hLoginV2(c) ==
    LET b == c.req.body
        found == UserByIdentity(c, b.identity)
    IN  IF ~IsEmail(b.identity) \/ Len(b.password) < 1
        THEN Send(c, Res(400, "Dados inválidos"))
        ELSE IF found = {}
        THEN Send(c, UnknownUserRes)
        ELSE LET user == CHOOSE u \in found : TRUE
             IN  IF ~BcryptCompare(b.password, user.password)
                 THEN Send(c, WrongPasswordRes)
                 ELSE LET token == JwtSign([id |-> user.id, identity |-> user.email,
                                            role |-> user.role],
                                           env.JWT_SECRET, TokenTtlV2, now)
                          c1 == [c EXCEPT !.key = Some(env.JWT_SECRET)]
                      IN  Send(c1, [Res(200, "") EXCEPT
                                      !.token = Some(token),
                                      !.user = Some([id |-> user.id,
                                                     identity |-> user.email,
                                                     role |-> user.role])])

\* v1 POST /api/auth/login: express-validator rules, then the handler
validateLoginV1(c) ==
    LET b == c.req.body
    IN  IF Len(b.identity) < 3 \/ Len(b.identity) > 50 \/ Len(b.password) < 6
        THEN Send(c, Res(400, "Dados inválidos"))
        ELSE c

hLoginV1(c) ==
    LET b == c.req.body
        found == UserByIdentity(c, b.identity)
        secret == SigningSecret(variant, env)
    IN  IF found = {}
        THEN Send(c, Res(401, "Credenciais inválidas"))
        ELSE LET admin == CHOOSE u \in found : TRUE
             IN  IF ~BcryptCompare(b.password, admin.password)
                 THEN Send(c, Res(401, "Credenciais inválidas"))
                 ELSE LET token == JwtSign([id |-> admin.id, identity |-> admin.email,
                                            role |-> None],
                                           secret, TokenTtlV1, now)
                          c1 == [c EXCEPT !.key = Some(secret)]
                      IN  Send(c1, [Res(200, "") EXCEPT !.token = Some(token)])

\* v1 POST /api/auth/register: the validators of username, password and
\* adminSecret (the offered user names carry no blanks to trim)
UsernameChars == UpperChars \cup LowerChars \cup DigitChars \cup {"_", "-"}

validateRegisterV1(c) ==
    LET b == c.req.body
    IN  IF \/ Len(b.identity) < 3 \/ Len(b.identity) > 50
           \/ \E i \in 1..Len(b.identity) : b.identity[i] \notin UsernameChars
           \/ Len(b.password) < 8
           \/ ~HasChar(b.password, LowerChars)
           \/ ~HasChar(b.password, UpperChars)
           \/ ~HasChar(b.password, DigitChars)
           \/ b.adminSecret = <<>>
        THEN Send(c, Res(400, "Dados inválidos"))
        ELSE c

\* v1 POST /api/auth/register: a row is added to table admins when
\* ADMIN_REGISTRATION_SECRET is configured and presented
hRegister(c) ==
    LET b == c.req.body
    IN  IF ~IsSome(deploy.ADMIN_REGISTRATION_SECRET)
           \/ Falsy(Get(deploy.ADMIN_REGISTRATION_SECRET))
        THEN Send(c, Res(403, "Registro de admin desabilitado"))
        ELSE IF b.adminSecret # Get(deploy.ADMIN_REGISTRATION_SECRET)
        THEN Send(c, Res(403, "Chave admin inválida"))
        ELSE IF \E u \in c.users : u.email = b.identity
        THEN Send(c, Res(409, "Usuário já existe"))
        ELSE Send([c EXCEPT !.users = @ \cup
                       {[id |-> MaxId(c.users) + 1, email |-> b.identity,
                         password |-> BcryptHash(b.password, 10),
                         role |-> None]}],
                  Res(201, ""))

\* v2 GET /api/auth/me
hMe(c) ==
    IF ~IsSome(c.user)
    THEN Send(c, Res(500, "TypeError"))
    ELSE LET found == {u \in users : u.id = Get(c.user).id}
         IN  IF found = {}
             THEN Send(c, Res(404, "Usuário não encontrado"))
             ELSE LET u == CHOOSE u \in found : TRUE
                  IN  Send(c, [Res(200, "") EXCEPT
                                 !.user = Some([id |-> u.id, identity |-> u.email,
                                                role |-> u.role])])

\* faulty variant: logging out removes the accounts the tokens were issued for
hLogout_DropsAccounts(c) == Send([c EXCEPT !.users = {}], Res(200, ""))

\* v2 POST /api/auth/logout
hLogout(c) == Send(c, Res(200, ""))

\* GET / and the read-only lead and statistics routes
hRead(c) == Send(c, Res(200, ""))

\* leadSchema (v2) and the express-validator rules (v1) on name and whatsapp
\* the fields of a lead form that leadSchema refuses (error.errors, one
\* entry per failing field, reported as details[].field)
LeadFieldErrors(b) ==
    {f \in {"name"} : ~(Len(b.name) >= 2 /\ Len(b.name) <= 100)}
    \cup {f \in {"whatsapp"} :
             ~(/\ Len(b.whatsapp) >= 10 /\ Len(b.whatsapp) <= 20
               /\ \A i \in 1..Len(b.whatsapp) : b.whatsapp[i] \in DigitChars)}

LeadBodyOk(b) ==
    /\ Len(b.name) >= 2 /\ Len(b.name) <= 100
    /\ Len(b.whatsapp) >= 10 /\ Len(b.whatsapp) <= 20
    /\ \A i \in 1..Len(b.whatsapp) : b.whatsapp[i] \in DigitChars

InsertLead(c) ==
    [c EXCEPT !.leads = c.nextLeadId :> "new" @@ @,
              !.nextLeadId = @ + 1]

\* an optional environment variable is configured when it is set and not empty
Configured(v) == IsSome(v) /\ ~Falsy(Get(v))

\* the payload sent to the webhook for lead id
WebhookData(c, id) ==
    [id |-> id, name |-> c.req.body.name, whatsapp |-> c.req.body.whatsapp,
     timestamp |-> now]

\* faulty variant: the headers are left out although a secret is configured
WebhookHeaders_Unsigned(data) == [signature |-> None, timestamp |-> None]

\* X-Webhook-Signature and X-Webhook-Timestamp, set under WEBHOOK_SECRET only
WebhookHeaders(data) ==
    IF Configured(deploy.WEBHOOK_SECRET)
    THEN [signature |-> Some(Hmac(data, Get(deploy.WEBHOOK_SECRET))),
          timestamp |-> Some(now)]
    ELSE [signature |-> None, timestamp |-> None]

\* one awaited fetch to WEBHOOK_URL and what is logged of its fate
WebhookCall(c, id) ==
    LET data == WebhookData(c, id)
    IN  [url |-> Get(deploy.WEBHOOK_URL), headers |-> WebhookHeaders(data),
         body |-> data, outcome |-> remote,
         log |-> CASE remote = "ok"     -> "info"
                   [] remote = "non2xx" -> "warn"
                   [] remote = "neterr" -> "error"]

\* faulty variant: a delivery that failed is attempted a second time
Dispatch_RetryOnce(c, id) ==
    IF ~Configured(deploy.WEBHOOK_URL) THEN c
    ELSE IF remote = "ok"
    THEN [c EXCEPT !.outbox = Append(@, WebhookCall(c, id))]
    ELSE [c EXCEPT !.outbox = Append(Append(@, WebhookCall(c, id)),
                                     WebhookCall(c, id))]

\* the webhook block of POST /api/leads: with WEBHOOK_URL configured the
\* payload is sent once; a response that is not ok is logged, an error thrown
\* by fetch is caught and logged, and the handler goes on either way
Dispatch(c, id) ==
    IF Configured(deploy.WEBHOOK_URL)
    THEN [c EXCEPT !.outbox = Append(@, WebhookCall(c, id))]
    ELSE c

\* v2 POST /api/leads
\* faulty variant: the row is inserted and announced before the form is
\* validated
hCreateLeadV2_StoreFirst(c) ==
    IF ~LeadBodyOk(c.req.body)
    THEN Send(Dispatch(InsertLead(c), c.nextLeadId),
              [Res(400, "Dados inválidos") EXCEPT
                 !.details = LeadFieldErrors(c.req.body)])
    ELSE Send(Dispatch(InsertLead(c), c.nextLeadId), Res(201, ""))

hCreateLeadV2(c) ==
    IF ~LeadBodyOk(c.req.body)
    THEN Send(c, [Res(400, "Dados inválidos") EXCEPT
                    !.details = LeadFieldErrors(c.req.body)])
    ELSE Send(Dispatch(InsertLead(c), c.nextLeadId), Res(201, ""))

\* v1 POST /api/leads
validateLeadV1(c) ==
    IF ~LeadBodyOk(c.req.body)
    THEN Send(c, Res(400, "Dados inválidos"))
    ELSE c

hCreateLeadV1(c) == Send(InsertLead(c), Res(201, ""))

\* v2 PATCH /api/admin/leads/:id/status
\* faulty variant: the status is written as received
hPatchStatusV2_AnyStatus(c) ==
    IF c.req.id \notin DOMAIN c.leads
    THEN Send(c, Res(404, "Lead não encontrado"))
    ELSE Send([c EXCEPT !.leads[c.req.id] = c.req.body.status], Res(200, ""))

hPatchStatusV2(c) ==
    IF c.req.body.status \notin LeadStatuses
    THEN Send(c, Res(400, "Status inválido"))
    ELSE IF c.req.id \notin DOMAIN c.leads
    THEN Send(c, Res(404, "Lead não encontrado"))
    ELSE Send([c EXCEPT !.leads[c.req.id] = c.req.body.status], Res(200, ""))

\* v2 DELETE /api/admin/leads/:id
hDeleteLead(c) ==
    IF c.req.id \notin DOMAIN c.leads
    THEN Send(c, Res(404, "Lead não encontrado"))
    ELSE Send([c EXCEPT !.leads = [i \in (DOMAIN @) \ {c.req.id} |-> @[i]]],
              Res(200, ""))

\* v1 PATCH /api/leads/:id/status
validatePatchV1(c) ==
    IF c.req.id < 1 \/ c.req.body.status \notin LeadStatuses
    THEN Send(c, Res(400, "Dados inválidos"))
    ELSE c

hPatchStatusV1(c) ==
    IF c.req.id \notin DOMAIN c.leads
    THEN Send(c, Res(404, "Lead não encontrado"))
    ELSE Send([c EXCEPT !.leads[c.req.id] = c.req.body.status], Res(200, ""))

-----------------------------------------------------------------------------
(* Routing *)

\* one step of a chain: the named middleware or handler applied to the context
Apply(name, c) ==
    CASE name \in LimiterNames       -> RateLimit(name, c)
      [] name = "authenticateToken"  -> authenticateToken(c)
      [] name = "authMiddleware"     -> authMiddleware(c)
      [] name = "adminMiddleware"    -> adminMiddleware(c)
      [] name = "csrfProtection"     -> csrfProtection(c)
      [] name = "validateLoginV1"    -> validateLoginV1(c)
      [] name = "validateLeadV1"     -> validateLeadV1(c)
      [] name = "validatePatchV1"    -> validatePatchV1(c)
      [] name = "validateRegisterV1" -> validateRegisterV1(c)
      [] name = "hRegister"          -> hRegister(c)
      [] name = "hCsrfToken"         -> hCsrfToken(c)
      [] name = "hLoginV1"           -> hLoginV1(c)
      [] name = "hLoginV2"           -> hLoginV2(c)
      [] name = "hMe"                -> hMe(c)
      [] name = "hLogout"            -> hLogout(c)
      [] name = "hRead"              -> hRead(c)
      [] name = "hCreateLeadV1"      -> hCreateLeadV1(c)
      [] name = "hCreateLeadV2"      -> hCreateLeadV2(c)
      [] name = "hPatchStatusV1"     -> hPatchStatusV1(c)
      [] name = "hPatchStatusV2"     -> hPatchStatusV2(c)
      [] name = "hDeleteLead"        -> hDeleteLead(c)

\* app.use / app.METHOD registration of the first server
ChainV1(method, path) ==
    CASE method = "GET"   /\ path = "/"                       ->
            <<"generalLimiter", "hRead">>
      [] method = "POST"  /\ path = "/api/leads"              ->
            <<"generalLimiter", "leadSubmissionLimiter", "validateLeadV1", "hCreateLeadV1">>
      [] method = "GET"   /\ path = "/api/leads"              ->
            <<"generalLimiter", "authenticateToken", "strictLimiter", "hRead">>
      [] method = "PATCH" /\ path = "/api/leads/:id/status"   ->
            <<"generalLimiter", "authenticateToken", "strictLimiter", "validatePatchV1",
              "hPatchStatusV1">>
      [] method = "POST"  /\ path = "/api/auth/login"         ->
            <<"generalLimiter", "strictLimiter", "validateLoginV1", "hLoginV1">>
      [] method = "POST"  /\ path = "/api/auth/register"      ->
            <<"generalLimiter", "strictLimiter", "validateRegisterV1", "hRegister">>

\* faulty variant: the role check is registered before the token check
AdminGuards_RoleFirst == <<"adminMiddleware", "authMiddleware">>

\* the guards every /api/admin route registers, in registration order
AdminGuards == <<"authMiddleware", "adminMiddleware">>

\* app.METHOD registration of the second server
ChainV2(method, path) ==
    CASE method = "GET"    /\ path = "/"                            -> <<"hRead">>
      [] method = "GET"    /\ path = "/api/csrf-token"              ->
            <<"csrfProtection", "hCsrfToken">>
      [] method = "POST"   /\ path = "/api/auth/login"              ->
            <<"loginLimiter", "hLoginV2">>
      [] method = "GET"    /\ path = "/api/auth/me"                 ->
            <<"authMiddleware", "hMe">>
      [] method = "POST"   /\ path = "/api/auth/logout"             -> <<"hLogout">>
      [] method = "POST"   /\ path = "/api/leads"                   ->
            <<"leadsLimiter", "hCreateLeadV2">>
      [] method = "GET"    /\ path \in {"/api/admin/leads", "/api/admin/stats",
                                        "/api/admin/stats/sources"} ->
            AdminGuards \o <<"hRead">>
      [] method = "PATCH"  /\ path = "/api/admin/leads/:id/status"  ->
            <<"csrfProtection">> \o AdminGuards \o <<"hPatchStatusV2">>
      [] method = "DELETE" /\ path = "/api/admin/leads/:id"         ->
            <<"csrfProtection">> \o AdminGuards \o <<"hDeleteLead">>

Chain(method, path) ==
    IF variant = "v1" THEN ChainV1(method, path) ELSE ChainV2(method, path)

\* run the chain: each middleware either sends the response (the chain stops)
\* or calls next()
RECURSIVE RunChain(_, _)
RunChain(chain, c) ==
    IF chain = <<>> \/ IsSome(c.res)
    THEN c
    ELSE LET entry == [mw |-> Head(chain), authed |-> IsSome(c.user), user |-> c.user]
         IN  CHOOSE r \in {RunChain(Tail(chain), c1) :
                    c1 \in {Apply(Head(chain), [c EXCEPT !.ran = Append(@, entry)])}} :
                TRUE

Handle(req) == RunChain(Chain(req.method, req.path), Ctx(req))


-----------------------------------------------------------------------------
(* Initial states: the environment and the database file found at startup *)

ExistingUser ==
    [id |-> 1, email |-> UserEmail, password |-> BcryptHash(UserPw, BcryptRounds),
     role |-> Some("user")]
ExistingAdmin ==
    [id |-> 2, email |-> AdminEmail, password |-> BcryptHash(Strong12, BcryptRounds),
     role |-> Some("admin")]
\* a row of table admins (v1): no role column
V1Admin ==
    [id |-> 1, email |-> AdminEmail, password |-> BcryptHash(Strong12, 10),
     role |-> None]

Env(secret, email, password) ==
    [JWT_SECRET |-> secret, ADMIN_EMAIL |-> email, ADMIN_PASSWORD |-> password]

SecretChoices   == {<<>>, SecretShort31, SecretOk32}
EmailChoices    == {<<>>, AdminEmail}
PasswordChoices == {<<>>, Strong12, Short11, NoUpper12, NoLower12, NoDigit12,
                    NoSpecial12}

NoPresented == [token |-> None, proves |-> None]
NoLast ==
    [ip |-> "", method |-> "", path |-> "", header |-> NoPresented, cookie |-> NoPresented,
     csrfCookie |-> None, csrfHeader |-> None, identity |-> <<>>,
     res |-> Res(0, ""), ran |-> <<>>, user |-> None, key |-> None,
     wrote |-> FALSE, webhook |-> <<>>, leadErrors |-> {}, id |-> 0,
     status |-> ""]

\* nothing optional is configured; the limiter library is of version 7
DefaultDeploy ==
    [WEBHOOK_URL |-> None, WEBHOOK_SECRET |-> None,
     ADMIN_REGISTRATION_SECRET |-> None, rateLimit |-> "v7"]

\* the browser before its first call
NoClient ==
    [csrfToken |-> None, jar |-> None, calls |-> <<>>, outcome |-> "",
     returned |-> 0, location |-> "/", view |-> "home", user |-> None,
     error |-> FALSE]

InitCommon ==
    /\ phase = "boot"
    /\ now = 0
    /\ hits = [l \in LimiterNames |-> [ip \in Addresses |-> None]]
    /\ remote = "ok"
    /\ client = NoClient
    /\ stored = None
    /\ last = NoLast

\* a correctly configured server of either variant, with accounts and one
\* lead on file
GoodConfig ==
    \/ /\ variant = "v1"
       /\ env = Env(SecretOk32, <<>>, <<>>)
       /\ users = {V1Admin}
    \/ /\ variant = "v2"
       /\ env = Env(SecretOk32, AdminEmail, Strong12)
       /\ users = {ExistingUser}

Init ==
    /\ InitCommon
    /\ deploy = DefaultDeploy
    /\ leads = 1 :> "new"
    /\ nextLeadId = 2
    /\ GoodConfig

\* any environment and any database file
InitAnyConfig ==
    /\ InitCommon
    /\ deploy = DefaultDeploy
    /\ leads = <<>>
    /\ nextLeadId = 1
    /\ \/ /\ variant = "v1"
          /\ \E s \in SecretChoices : env = Env(s, <<>>, <<>>)
          /\ users \in {{}, {V1Admin}}
       \/ /\ variant = "v2"
          /\ \E s \in SecretChoices, e \in EmailChoices, p \in PasswordChoices :
                env = Env(s, e, p)
          /\ users \in SUBSET {ExistingUser, ExistingAdmin}

-----------------------------------------------------------------------------
(* Startup: the top-level code of the module, up to app.listen *)

\* v2: the process exits unless the secret and the admin credentials are
\* configured
EnvCheckOk(e) ==
    /\ ~(Falsy(e.JWT_SECRET) \/ Len(e.JWT_SECRET) < MinSecretLen)
    /\ ~(Falsy(e.ADMIN_EMAIL) \/ Falsy(e.ADMIN_PASSWORD))

\* v2: the admin account is created when no row has ADMIN_EMAIL; the password
\* policy is applied to ADMIN_PASSWORD only then
AdminExists(rows, e) == \E u \in rows : u.email = e.ADMIN_EMAIL

\* faulty variant: the password policy is not applied to a new account
BootstrapOk_NoPolicy(rows, e) == TRUE

BootstrapOk(rows, e) == AdminExists(rows, e) \/ PasswordOk(e.ADMIN_PASSWORD)

Bootstrap(rows, e) ==
    IF AdminExists(rows, e)
    THEN rows
    ELSE rows \cup {[id |-> MaxId(rows) + 1, email |-> e.ADMIN_EMAIL,
                     password |-> BcryptHash(e.ADMIN_PASSWORD, BcryptRounds),
                     role |-> Some("admin")]}

Boot ==
    /\ phase = "boot"
    /\ IF variant = "v1"
       THEN phase' = "serving" /\ users' = users
       ELSE IF EnvCheckOk(env) /\ BootstrapOk(users, env)
            THEN phase' = "serving" /\ users' = Bootstrap(users, env)
            ELSE phase' = "exited" /\ users' = users
    /\ UNCHANGED <<variant, env, leads, nextLeadId, now, hits, stored, last,
                   deploy, remote, client>>

-----------------------------------------------------------------------------
(* The clock *)

Hour == 3600 * 1000
Day == 24 * Hour

Minute == 60 * 1000

\* the instants at which the clock is observed while the limiters are
\* exercised: both window lengths (15 and 60 minutes) begin and end on them
RateInstants == {q * 15 * Minute : q \in {0, 1, 4}}

\* the instants at which the session clock is observed
DayInstants == {d * Day : d \in {0, 1} \cup (7..MaxDays)}

\* faulty variant: the store never forgets a window
Expire_Never(store, t) == store

\* entries whose window is over are dropped by the store
Expire(store, t) ==
    [l \in LimiterNames |-> [ip \in Addresses |->
        IF IsSome(store[l][ip]) /\ t >= Get(store[l][ip]).resetTime
        THEN None ELSE store[l][ip]]]

Tick(instants) ==
    /\ phase = "serving"
    /\ \E t \in instants :
        /\ t > now
        /\ now' = t
        /\ hits' = Expire(hits, t)
    /\ last' = NoLast
    /\ UNCHANGED <<variant, env, phase, users, leads, nextLeadId, stored,
                   deploy, remote, client>>

-----------------------------------------------------------------------------
(* Requests *)

TokensOnOffer == {ForgedToken} \cup {t : t \in Range(stored)}
                    \cup {Tamper(t) : t \in Range(stored)}
AuthChoices == {None} \cup {Some(t) : t \in TokensOnOffer}
CookieTokenChoices == {None, stored}
\* <<cookie _csrf, header X-CSRF-Token>>: matching, mismatching, header
\* absent, cookie absent
CsrfChoices == {<<Some(1), Some(CsrfCreate(1, CsrfSalt))>>,
                <<Some(2), Some(CsrfCreate(1, CsrfSalt))>>,
                <<Some(1), None>>,
                <<None, Some(CsrfCreate(1, CsrfSalt))>>}
IdentityChoices == {AdminEmail, UserEmail, GhostEmail, NotAnEmail}
LoginPasswordChoices == {Strong12, UserPw, WrongPw}
\* <<:id, body.status>>
PatchChoices == {<<1, "contacted">>, <<1, "archived">>, <<2, "contacted">>}
LeadIdChoices == {1, 2}
LeadBodyChoices == {Body(<<>>, <<>>, "", <<"J", "o">>, Rep("1", 10)),
                    Body(<<>>, <<>>, "", <<"J">>, Rep("1", 10))}
MaxLeadId == 2

Ran(l, name) == \E i \in 1..Len(l.ran) : l.ran[i].mw = name

HandlerNames == {"hCsrfToken", "hLoginV1", "hLoginV2", "hMe", "hLogout", "hRead",
                 "hCreateLeadV1", "hCreateLeadV2", "hPatchStatusV1",
                 "hPatchStatusV2", "hDeleteLead", "hRegister"}

HandlerRan(l) == \E h \in HandlerNames : Ran(l, h)

\* what is recorded of the last request served: the credentials presented
\* and what they prove, the response, the middlewares that ran with req.user
\* set or not, the signing key used, and whether the leads table was written;
\* of a request that reached its route handler (or the validator of the
\* first server's status route), also the lead id and the status it named
Presented(tok) ==
    [token |-> tok,
     proves |-> IF IsSome(tok)
                THEN JwtVerify(Get(tok), SigningSecret(variant, env), now)
                ELSE None]

Summary(req, c) ==
    [ip |-> req.ip, method |-> req.method, path |-> req.path,
     header |-> Presented(req.authorization),
     cookie |-> Presented(req.cookieToken),
     csrfCookie |-> req.csrfCookie, csrfHeader |-> req.csrfHeader,
     identity |-> req.body.identity,
     res |-> Get(c.res), ran |-> c.ran, user |-> c.user, key |-> c.key,
     wrote |-> c.leads # leads, webhook |-> c.outbox,
     leadErrors |-> LeadFieldErrors(req.body),
     id |-> IF HandlerRan(c) \/ Ran(c, "validatePatchV1") THEN req.id ELSE 0,
     status |-> IF HandlerRan(c) \/ Ran(c, "validatePatchV1")
                THEN req.body.status ELSE ""]

\* the server handles one request: the chain runs to completion and its
\* writes to the stores take effect; the client keeps a token it is sent
Serve(req, cap) ==
    /\ phase = "serving"
    /\ \E c \in {Handle(req)} :
           /\ c.nextLeadId <= MaxLeadId + 1
           /\ \A l \in LimiterNames, ip \in Addresses :
                 IsSome(c.hits[l][ip]) => Get(c.hits[l][ip]).count <= cap[l]
           /\ hits' = c.hits
           /\ users' = c.users
           /\ leads' = c.leads
           /\ nextLeadId' = c.nextLeadId
           /\ stored' = IF IsSome(Get(c.res).token) THEN Get(c.res).token ELSE stored
           /\ last' = Summary(req, c)
    /\ UNCHANGED <<variant, env, phase, now, deploy, remote, client>>

Health(cap) ==
    \E ip \in IPs :
        Serve(Req(ip, "GET", "/", None, None, None, None, 0, EmptyBody), cap)

Login(identities, passwords, cap) ==
    \E ip \in IPs, i \in identities, p \in passwords :
        Serve(Req(ip, "POST", "/api/auth/login", None, None, None, None, 0,
                  Body(i, p, "", <<>>, <<>>)), cap)

\* POST /api/leads with a form out of the given ones
SubmitForm(forms, cap) ==
    \E ip \in IPs, b \in forms :
        Serve(Req(ip, "POST", "/api/leads", None, None, None, None, 0, b), cap)

CreateLead(cap) ==
    \E ip \in IPs, b \in LeadBodyChoices :
        Serve(Req(ip, "POST", "/api/leads", None, None, None, None, 0, b), cap)

\* v1 GET /api/leads
ListLeadsV1(cap) ==
    /\ variant = "v1"
    /\ \E ip \in IPs, a \in AuthChoices :
        Serve(Req(ip, "GET", "/api/leads", a, None, None, None, 0, EmptyBody), cap)

\* v1 PATCH /api/leads/:id/status
PatchStatusV1(cap) ==
    /\ variant = "v1"
    /\ \E ip \in IPs, a \in AuthChoices, p \in PatchChoices :
        Serve(Req(ip, "PATCH", "/api/leads/:id/status", a, None, None, None, p[1],
                  Body(<<>>, <<>>, p[2], <<>>, <<>>)), cap)

CsrfToken(cap) ==
    /\ variant = "v2"
    /\ \E ip \in IPs, ck \in {None, Some(1)} :
        Serve(Req(ip, "GET", "/api/csrf-token", None, None, ck, None, 0, EmptyBody), cap)

Me(cap) ==
    /\ variant = "v2"
    /\ \E ip \in IPs, a \in AuthChoices, ct \in CookieTokenChoices :
        Serve(Req(ip, "GET", "/api/auth/me", a, ct, None, None, 0, EmptyBody), cap)

Logout(cap) ==
    /\ variant = "v2"
    /\ \E ip \in IPs :
        Serve(Req(ip, "POST", "/api/auth/logout", None, None, None, None, 0,
                  EmptyBody), cap)

\* v2 GET /api/admin/leads, /api/admin/stats, /api/admin/stats/sources
AdminRead(cap) ==
    /\ variant = "v2"
    /\ \E ip \in IPs, a \in AuthChoices, ct \in CookieTokenChoices :
        Serve(Req(ip, "GET", "/api/admin/leads", a, ct, None, None, 0, EmptyBody),
              cap)

PatchStatusV2(cap) ==
    /\ variant = "v2"
    /\ \E ip \in IPs, a \in AuthChoices, cs \in CsrfChoices, p \in PatchChoices :
        Serve(Req(ip, "PATCH", "/api/admin/leads/:id/status", a, None, cs[1], cs[2],
                  p[1], Body(<<>>, <<>>, p[2], <<>>, <<>>)), cap)

DeleteLead(cap) ==
    /\ variant = "v2"
    /\ \E ip \in IPs, a \in AuthChoices, cs \in CsrfChoices, id \in LeadIdChoices :
        Serve(Req(ip, "DELETE", "/api/admin/leads/:id", a, None, cs[1], cs[2], id,
                  EmptyBody), cap)

-----------------------------------------------------------------------------
(* Specifications *)

\* the requests a limiter may count in one window of a session
SessionCap == [l \in LimiterNames |-> MaxHits]

\* the authentication, authorization and CSRF pipeline of both servers
Next ==
    \/ Boot
    \/ Tick(DayInstants)
    \/ Health(SessionCap)
    \/ Login(IdentityChoices, LoginPasswordChoices, SessionCap)
    \/ ListLeadsV1(SessionCap)
    \/ PatchStatusV1(SessionCap)
    \/ CsrfToken(SessionCap)
    \/ Me(SessionCap)
    \/ Logout(SessionCap)
    \/ AdminRead(SessionCap)
    \/ PatchStatusV2(SessionCap)
    \/ DeleteLead(SessionCap)

Spec == Init /\ [][Next]_vars

\* startup under any environment and database file, and the first requests
\* of a server that got to listen
NextBoot ==
    \/ Boot
    \/ Health(SessionCap)
    \/ Login(IdentityChoices, LoginPasswordChoices, SessionCap)
    \/ ListLeadsV1(SessionCap)
    \/ Me(SessionCap)

SpecBoot == InitAnyConfig /\ [][NextBoot]_vars

\* v1 POST /api/auth/register
RegisterChoices ==
    {<<u, p, k>> : u \in {NewUsername, GhostEmail}, p \in {Strong12, WrongPw},
                   k \in {RegSecret, WrongRegSecret}}

Register(cap) ==
    /\ variant = "v1"
    /\ \E ip \in IPs, r \in RegisterChoices :
        Serve(Req(ip, "POST", "/api/auth/register", None, None, None, None, 0,
                  [Body(r[1], r[2], "", <<>>, <<>>) EXCEPT !.adminSecret = r[3]]), cap)

\* the process is stopped and started again on the same database file: the
\* memory stores of the limiters are lost, the browser keeps its token
Restart ==
    /\ phase = "serving"
    /\ phase' = "boot"
    /\ hits' = [l \in LimiterNames |-> [ip \in Addresses |-> None]]
    /\ last' = NoLast
    /\ UNCHANGED <<variant, env, users, leads, nextLeadId, now, stored,
                   deploy, remote, client>>

\* the accounts over the life of a database file: startup, restart, and the
\* routes that read or could write the account tables
NextAccounts ==
    \/ Boot
    \/ Restart
    \/ Register(SessionCap)
    \/ Login({AdminEmail, NewUsername}, {Strong12, WrongPw}, SessionCap)
    \/ Me(SessionCap)
    \/ PatchStatusV2(SessionCap)
    \/ DeleteLead(SessionCap)

InitAccounts ==
    /\ InitCommon
    /\ \E k \in {None, Some(RegSecret)} :
          deploy = [DefaultDeploy EXCEPT !.ADMIN_REGISTRATION_SECRET = k]
    /\ leads = 1 :> "new"
    /\ nextLeadId = 2
    /\ \/ GoodConfig
       \/ /\ variant = "v2"
          /\ env = Env(SecretOk32, AdminEmail, Strong12)
          /\ users = {ExistingUser, ExistingAdmin}

SpecAccounts == InitAccounts /\ [][NextAccounts]_vars

\* every limiter driven up to and beyond its maximum, window after window,
\* by failed logins, lead submissions and plain page requests
RateCap == [l \in LimiterNames |-> Limiter(l).max + MaxOver]

NextRate ==
    \/ Boot
    \/ Tick(RateInstants)
    \/ Health(RateCap)
    \/ Login({GhostEmail}, {WrongPw}, RateCap)
    \/ CreateLead(RateCap)

\* a correctly configured server whose leads table has room for one more lead
InitRate ==
    /\ InitCommon
    /\ deploy = DefaultDeploy
    /\ leads = [i \in 1..(MaxLeadId - 1) |-> "new"]
    /\ nextLeadId = MaxLeadId
    /\ GoodConfig

SpecRate == InitRate /\ [][NextRate]_vars

\* two clients and two tiers: failed logins of one client and refused lead
\* submissions of two, observed at the start and in the middle of the
\* one-hour windows, under either major version of the limiter library
TierInstants == {0, 15 * Minute}

\* every limiter driven one request beyond its maximum
TierCap == [l \in LimiterNames |-> Limiter(l).max + 1]

\* a submission the validation refuses (the name is too short); the limiter
\* has counted it by then
InvalidLeadBody == Body(<<>>, <<>>, "", <<"J">>, Rep("1", 10))

TierLogin ==
    \E ip \in IPs :
        Serve(Req(ip, "POST", "/api/auth/login", None, None, None, None, 0,
                  Body(GhostEmail, WrongPw, "", <<>>, <<>>)), TierCap)

TierCreateLead ==
    \E ip \in Addresses :
        Serve(Req(ip, "POST", "/api/leads", None, None, None, None, 0,
                  InvalidLeadBody), TierCap)

NextTiers ==
    \/ Boot
    \/ Tick(TierInstants)
    \/ TierLogin
    \/ TierCreateLead

InitTiers ==
    /\ InitCommon
    /\ \E v \in {"v6", "v7"} : deploy = [DefaultDeploy EXCEPT !.rateLimit = v]
    /\ leads = [i \in 1..(MaxLeadId - 1) |-> "new"]
    /\ nextLeadId = MaxLeadId
    /\ GoodConfig

SpecTiers == InitTiers /\ [][NextTiers]_vars

\* the webhook of the second server: lead submissions while the endpoint
\* answers, answers with an error status, or cannot be reached
HookUrl == <<"h">>
HookSecret == <<"w", "h">>
RemoteConditions == {"ok", "non2xx", "neterr"}

RemoteChanges ==
    /\ \E r \in RemoteConditions \ {remote} : remote' = r
    /\ UNCHANGED <<variant, env, phase, users, leads, nextLeadId, now, hits,
                   stored, last, deploy, client>>

\* lead forms: a valid one, and ones with a short name, a short number, both
LeadForms ==
    LeadBodyChoices \cup {Body(<<>>, <<>>, "", <<"J", "o">>, Rep("1", 9)),
                          Body(<<>>, <<>>, "", <<"J">>, <<"a">>)}

NextHook ==
    \/ Boot
    \/ RemoteChanges
    \/ SubmitForm(LeadForms, TierCap)

InitHook ==
    /\ InitCommon
    /\ \E u \in {None, Some(HookUrl)}, k \in {None, Some(HookSecret)} :
          deploy = [DefaultDeploy EXCEPT !.WEBHOOK_URL = u, !.WEBHOOK_SECRET = k]
    /\ leads = <<>>
    /\ nextLeadId = 1
    /\ variant = "v2"
    /\ env = Env(SecretOk32, AdminEmail, Strong12)
    /\ users = {ExistingUser}

SpecHook == InitHook /\ [][NextHook]_vars

\* The browser client (services/auth.js) against the second server.
\* String.prototype.toUpperCase on the method names the pages may pass
ToUpperCase(m) ==
    CASE m = "get" -> "GET" [] m = "delete" -> "DELETE" [] m = "patch" -> "PATCH"
      [] m = "post" -> "POST" [] m = "put" -> "PUT" [] OTHER -> m

MutatingMethods == {"POST", "PUT", "PATCH", "DELETE"}

\* faulty variant: the method name is compared as it was given
needsCSRF_CaseSensitive(m) == m \in MutatingMethods

needsCSRF(m) == ToUpperCase(m) \in MutatingMethods

\* the method fetch puts on the wire: it upper-cases delete, get, head,
\* options, post and put, and no other name
WireMethod(m) ==
    CASE m = "get" -> "GET" [] m = "delete" -> "DELETE" [] m = "post" -> "POST"
      [] m = "put" -> "PUT" [] OTHER -> m

\* what the log of a call keeps of one request: the method as given to the
\* client, the X-CSRF-Token header sent, the status received and the
\* middleware that answered
Call(m, req, c) ==
    [method |-> m, path |-> req.path, csrf |-> req.csrfHeader,
     status |-> Get(c.res).status, by |-> c.ran[Len(c.ran)].mw]

\* csurf sets cookie _csrf on a request that comes without it
Jar(jar, c) ==
    IF ~IsSome(jar) /\ (\E i \in 1..Len(c.ran) : c.ran[i].mw = "csrfProtection")
    THEN Some(FreshCsrfSecret)
    ELSE jar

\* faulty variant: the cache is never consulted
getCsrfToken_NoCache(ip, cache, jar, up) ==
    IF ~up
    THEN [token |-> None, jar |-> jar,
          calls |-> <<[method |-> "GET", path |-> "/api/csrf-token", csrf |-> None,
                       status |-> 0, by |-> "network"]>>]
    ELSE LET req == Req(ip, "GET", "/api/csrf-token", None, None, jar, None, 0,
                        EmptyBody)
             c == Handle(req)
         IN  [token |-> Get(c.res).csrfToken, jar |-> Jar(jar, c),
              calls |-> <<Call("GET", req, c)>>]

\* getCsrfToken: the cached token, or else GET /api/csrf-token with the
\* cookies of the jar; the token received is cached. When the fetch throws
\* (up is FALSE: the server cannot be reached) null is returned and the cache
\* stays empty
getCsrfToken(ip, cache, jar, up) ==
    IF IsSome(cache)
    THEN [token |-> cache, jar |-> jar, calls |-> <<>>]
    ELSE IF ~up
    THEN [token |-> None, jar |-> jar,
          calls |-> <<[method |-> "GET", path |-> "/api/csrf-token", csrf |-> None,
                       status |-> 0, by |-> "network"]>>]
    ELSE LET req == Req(ip, "GET", "/api/csrf-token", None, None, jar, None, 0,
                        EmptyBody)
             c == Handle(req)
         IN  [token |-> Get(c.res).csrfToken, jar |-> Jar(jar, c),
              calls |-> <<Call("GET", req, c)>>]

\* faulty variant: every failed request to a mutating route is sent again
ShouldRetry_AnyFailure(m, status) == status >= 400 /\ needsCSRF(m)

\* the client renews the CSRF token and sends the request once more
ShouldRetry(m, status) == status = 403 /\ needsCSRF(m)

\* <<method as given, path, :id, body.status>>
FetchChoices ==
    {<<"GET", "/api/admin/leads", 0, "">>,
     <<"get", "/api/admin/leads", 0, "">>,
     <<"PATCH", "/api/admin/leads/:id/status", 1, "contacted">>,
     <<"DELETE", "/api/admin/leads/:id", 1, "">>,
     <<"delete", "/api/admin/leads/:id", 1, "">>}

\* the server's part of a call: the stores as the last request of the call
\* left them (a request answered 401 or 403 has written nothing, and the
\* routes the client calls pass no limiter)
Served(req, c) ==
    /\ hits' = c.hits
    /\ users' = c.users
    /\ leads' = c.leads
    /\ nextLeadId' = c.nextLeadId
    /\ last' = Summary(req, c)

\* authenticatedFetch(url, { method, body }); up1 and up2 tell whether the
\* first and the second fetch of a CSRF token reach the server
AuthenticatedFetch ==
    /\ phase = "serving" /\ variant = "v2"
    /\ UNCHANGED <<variant, env, phase, now, deploy, remote>>
    /\ \E ip \in IPs, f \in FetchChoices :
        IF ~IsSome(stored)
        THEN /\ client' = [client EXCEPT !.calls = <<>>, !.returned = 0,
                                         !.outcome = "Token não encontrado"]
             /\ UNCHANGED <<stored, hits, users, leads, nextLeadId, last>>
        ELSE \E g \in IF needsCSRF(f[1])
                      THEN {getCsrfToken(ip, client.csrfToken, client.jar, up1) :
                               up1 \in BOOLEAN}
                      ELSE {[token |-> client.csrfToken, jar |-> client.jar,
                             calls |-> <<>>]} :
             \E req \in {Req(ip, WireMethod(f[1]), f[2], stored, None, g.jar,
                             IF needsCSRF(f[1]) THEN g.token ELSE None,
                             f[3], Body(<<>>, <<>>, f[4], <<>>, <<>>))} :
             \E c \in {Handle(req)} :
             \E jar \in {Jar(g.jar, c)}, sent \in {g.calls \o <<Call(f[1], req, c)>>} :
                IF Get(c.res).status = 401
                THEN /\ stored' = None
                     /\ client' = [client EXCEPT !.csrfToken = g.token, !.jar = jar,
                                                 !.calls = sent,
                                                 !.outcome = "Sessão expirada",
                                                 !.returned = 0,
                                                 !.location = "/login",
                                                 !.view = "login"]
                     /\ Served(req, c)
                ELSE IF ShouldRetry(f[1], Get(c.res).status)
                THEN \E g2 \in {getCsrfToken(ip, None, jar, up2) : up2 \in BOOLEAN} :
                     IF IsSome(g2.token)
                     THEN \E req2 \in {[req EXCEPT !.csrfCookie = g2.jar,
                                                   !.csrfHeader = g2.token]} :
                          \E c2 \in {Handle(req2)} :
                             /\ stored' = stored
                             /\ client' = [client EXCEPT
                                              !.csrfToken = g2.token,
                                              !.jar = Jar(g2.jar, c2),
                                              !.calls = sent \o g2.calls
                                                          \o <<Call(f[1], req2, c2)>>,
                                              !.outcome = "response",
                                              !.returned = Get(c2.res).status]
                             /\ Served(req2, c2)
                     ELSE /\ stored' = stored
                          /\ client' = [client EXCEPT !.csrfToken = None,
                                                      !.jar = jar,
                                                      !.calls = sent \o g2.calls,
                                                      !.outcome = "response",
                                                      !.returned = Get(c.res).status]
                          /\ Served(req, c)
                ELSE /\ stored' = stored
                     /\ client' = [client EXCEPT !.csrfToken = g.token, !.jar = jar,
                                                 !.calls = sent,
                                                 !.outcome = "response",
                                                 !.returned = Get(c.res).status]
                     /\ Served(req, c)

\* the browser drops cookie _csrf (the user clears the cookies, or the
\* session cookie ends with a browser restart that restores the tab)
ClearCookies ==
    /\ IsSome(client.jar)
    /\ client' = [client EXCEPT !.jar = None]
    /\ UNCHANGED <<variant, env, phase, users, leads, nextLeadId, now, hits,
                   stored, last, deploy, remote>>

\* the page is loaded again: the module variable csrfToken starts as null
Reload ==
    /\ IsSome(client.csrfToken)
    /\ client' = [client EXCEPT !.csrfToken = None]
    /\ UNCHANGED <<variant, env, phase, users, leads, nextLeadId, now, hits,
                   stored, last, deploy, remote>>

\* the instants of a session of the second server: issue of the token, and
\* its expiry, expiresIn later
SessionInstants == {0, TokenTtlV2 * 1000}

NextClient ==
    \/ Boot
    \/ Tick(SessionInstants)
    \/ Login({UserEmail}, {UserPw}, SessionCap)
    \/ Login({AdminEmail}, {Strong12}, SessionCap)
    \/ AuthenticatedFetch
    \/ ClearCookies
    \/ Reload

InitClient ==
    /\ InitCommon
    /\ deploy = DefaultDeploy
    /\ leads = 1 :> "new"
    /\ nextLeadId = 2
    /\ variant = "v2"
    /\ env = Env(SecretOk32, AdminEmail, Strong12)
    /\ users = {ExistingUser, ExistingAdmin}

SpecClient == InitClient /\ [][NextClient]_vars

\* ---------------------------------------------------------------------------
\* POST /api/leads in time: the handler stops at `await fetch(WEBHOOK_URL)`
\* ---------------------------------------------------------------------------

\* a submission whose webhook call was sent and has not settled yet
Pending ==
    /\ Len(last.webhook) = 1
    /\ last.webhook[1].outcome = "pending"

\* the handler runs up to its first await: validation, INSERT and, with a
\* webhook configured, the start of the fetch; with no webhook, or a refused
\* form, it runs to its response. (One submission at a time is followed.)
SubmitLead ==
    /\ phase = "serving"
    /\ ~Pending
    /\ \E ip \in IPs, b \in LeadForms :
       \E req \in {Req(ip, "POST", "/api/leads", None, None, None, None, 0, b)} :
       \E c \in {Handle(req)} :
          /\ c.nextLeadId <= MaxLeadId + 1
          /\ \A l \in LimiterNames, a \in Addresses :
                IsSome(c.hits[l][a]) => Get(c.hits[l][a]).count <= TierCap[l]
          /\ hits' = c.hits
          /\ users' = c.users
          /\ leads' = c.leads
          /\ nextLeadId' = c.nextLeadId
          /\ last' = IF c.outbox = <<>>
                     THEN Summary(req, c)
                     ELSE [Summary(req, c) EXCEPT
                             !.res = Res(0, ""),
                             !.webhook = <<[c.outbox[1] EXCEPT !.outcome = "pending",
                                                               !.log = ""]>>]
    /\ UNCHANGED <<variant, env, phase, now, stored, deploy, remote, client>>

\* the fetch settles (a response of the endpoint, or an error thrown by
\* fetch, its own timeout included); the handler logs the outcome and only
\* then sends 201
WebhookSettles ==
    /\ Pending
    /\ last' = [last EXCEPT
                  !.res = Res(201, ""),
                  !.webhook = <<[last.webhook[1] EXCEPT
                                   !.outcome = remote,
                                   !.log = CASE remote = "ok"     -> "info"
                                             [] remote = "non2xx" -> "warn"
                                             [] remote = "neterr" -> "error"]>>]
    /\ UNCHANGED <<variant, env, phase, users, leads, nextLeadId, now, hits,
                   stored, deploy, remote, client>>

NextAwait ==
    \/ Boot
    \/ RemoteChanges
    \/ SubmitLead
    \/ WebhookSettles

SpecAwait == InitHook /\ [][NextAwait]_vars

\* ---------------------------------------------------------------------------
\* Login attempts against the login limiter
\* ---------------------------------------------------------------------------

\* attempts with the administrator's correct password and for an unknown
\* account, up to one more than a limiter's max per window
NextLogin ==
    \/ Boot
    \/ Tick(TierInstants)
    \/ Login({AdminEmail, GhostEmail}, {Strong12}, TierCap)

SpecLogin == Init /\ [][NextLogin]_vars

\* ---------------------------------------------------------------------------
\* The leads table under submissions, status updates and deletions
\* ---------------------------------------------------------------------------

NextLeads ==
    \/ Boot
    \/ Login({AdminEmail}, {Strong12}, SessionCap)
    \/ SubmitForm(LeadBodyChoices, SessionCap)
    \/ PatchStatusV1(SessionCap)
    \/ PatchStatusV2(SessionCap)
    \/ DeleteLead(SessionCap)

SpecLeads == Init /\ [][NextLeads]_vars

\* ---------------------------------------------------------------------------
\* The guarded pages of the React client (App.jsx, ProtectedRoute.jsx)
\* ---------------------------------------------------------------------------

\* the routes App wraps in <ProtectedRoute>, with the requiredRole each one
\* gets: App passes no requiredRole, so the default 'user' applies
AppRoutes == "/admin" :> "user" @@ "/admin/leads" :> "user"

\* getCurrentUser: GET /api/auth/me with the stored token; a 401 removes the
\* token; every failure throws
getCurrentUser(ip) ==
    IF ~IsSome(stored)
    THEN [ok |-> FALSE, user |-> None, stored |-> stored, sent |-> FALSE,
          req |-> Req(ip, "GET", "/api/auth/me", None, None, None, None, 0, EmptyBody),
          c |-> Ctx(Req(ip, "GET", "/api/auth/me", None, None, None, None, 0,
                        EmptyBody))]
    ELSE LET req == Req(ip, "GET", "/api/auth/me", stored, None, client.jar, None,
                        0, EmptyBody)
             c == Handle(req)
             status == Get(c.res).status
         IN  [ok |-> status \in 200..299,
              user |-> IF status \in 200..299 THEN Get(c.res).user ELSE None,
              stored |-> IF status = 401 THEN None ELSE stored,
              sent |-> TRUE, req |-> req, c |-> c]

\* what ProtectedRoute renders: the loading text, a <Navigate> to /login or
\* to /, or its children
ProtectedRoute(requiredRole, loading, authenticated, error, user) ==
    IF loading THEN "loading"
    ELSE IF ~authenticated \/ error THEN "/login"
    ELSE IF requiredRole = "admin"
            /\ (IF IsSome(user) THEN Get(user).role ELSE None) # Some("admin")
         THEN "/"
    ELSE "children"

\* the browser opens a guarded route: ProtectedRoute mounts with
\* loading = true, user = null, error = false and renders the loading text
Mount ==
    /\ phase = "serving"
    /\ \E route \in DOMAIN AppRoutes :
          client' = [client EXCEPT !.location = route, !.user = None,
                                   !.error = FALSE,
                                   !.view = ProtectedRoute(AppRoutes[route], TRUE,
                                                           IsSome(stored), FALSE,
                                                           None)]
    /\ UNCHANGED <<variant, env, phase, users, leads, nextLeadId, now, hits,
                   stored, last, deploy, remote>>

\* the effect validateAuth runs to its end and the component renders again;
\* a <Navigate> moves the browser to its target
validateAuth ==
    /\ phase = "serving"
    /\ client.view = "loading"
    /\ UNCHANGED <<variant, env, phase, now, deploy, remote>>
    /\ \E ip \in IPs :
       \E g \in {getCurrentUser(ip)} :
       \E view \in {ProtectedRoute(AppRoutes[client.location], FALSE,
                                   IsSome(g.stored), g.sent /\ ~g.ok, g.user)} :
          /\ stored' = g.stored
          /\ client' = [client EXCEPT
                           !.user = g.user,
                           !.error = g.sent /\ ~g.ok,
                           !.jar = IF g.sent THEN Jar(client.jar, g.c) ELSE client.jar,
                           !.location = IF view = "children" THEN client.location
                                        ELSE view,
                           !.view = CASE view = "children" -> "children"
                                      [] view = "/login" -> "login"
                                      [] OTHER -> "home"]
          /\ IF g.sent THEN Served(g.req, g.c)
             ELSE UNCHANGED <<hits, users, leads, nextLeadId, last>>

\* logout(): the token is removed and the browser is sent to /login; the
\* server is not called
logout ==
    /\ IsSome(stored)
    /\ stored' = None
    /\ client' = [client EXCEPT !.location = "/login", !.view = "login"]
    /\ UNCHANGED <<variant, env, phase, users, leads, nextLeadId, now, hits,
                   last, deploy, remote>>

NextPages ==
    \/ Boot
    \/ Tick(DayInstants)
    \/ Login({UserEmail, AdminEmail}, {UserPw, Strong12}, SessionCap)
    \/ Mount
    \/ validateAuth
    \/ logout

SpecPages == InitClient /\ [][NextPages]_vars

TypeOK ==
    /\ variant \in {"v1", "v2"}
    /\ phase \in {"boot", "serving", "exited"}
    /\ now \in DayInstants \cup RateInstants
    /\ nextLeadId \in 1..(MaxLeadId + 1)

-----------------------------------------------------------------------------
(* Vocabulary of the properties: they speak of the last request served *)

\* PATCH /api/admin/leads/:id/status and DELETE /api/admin/leads/:id
MutatingAdminRoute(l) ==
    \/ l.method = "PATCH"  /\ l.path = "/api/admin/leads/:id/status"
    \/ l.method = "DELETE" /\ l.path = "/api/admin/leads/:id"

\* the routes registered behind the role check
RoleGated(l) ==
    /\ variant = "v2"
    /\ \/ l.method = "GET" /\ l.path = "/api/admin/leads"
       \/ MutatingAdminRoute(l)

\* the routes registered behind a token check
TokenProtected(l) ==
    \/ /\ variant = "v1"
       /\ \/ l.method = "GET"   /\ l.path = "/api/leads"
          \/ l.method = "PATCH" /\ l.path = "/api/leads/:id/status"
    \/ /\ variant = "v2"
       /\ \/ l.method = "GET" /\ l.path = "/api/auth/me"
          \/ RoleGated(l)

\* the X-CSRF-Token header is the token made from the secret in cookie _csrf
CsrfMatches(l) ==
    /\ IsSome(l.csrfCookie)
    /\ IsSome(l.csrfHeader)
    /\ Get(l.csrfHeader) = CsrfCreate(Get(l.csrfCookie), Get(l.csrfHeader).salt)

\* the request got past the CSRF check, or its route has none
CsrfPassed(l) == MutatingAdminRoute(l) => CsrfMatches(l)

\* the tokens the request carries, in the Authorization header or the cookie
Tokens(l) == Range(l.header.token) \cup Range(l.cookie.token)

SignedByServer(tok) == tok.sig = Hmac(tok.payload, SigningSecret(variant, env))

Expired(tok) == (now \div 1000) >= tok.payload.exp

Valid(tok) == SignedByServer(tok) /\ ~Expired(tok)

AdminDenied == "Acesso negado. Apenas administradores."
CsrfInvalid == "invalid csrf token"

-----------------------------------------------------------------------------
(* Properties *)

\* C1: a PATCH /api/admin/leads/:id/status or DELETE /api/admin/leads/:id
\* whose X-CSRF-Token header is absent or does not match the client's CSRF
\* secret is answered 403 with the CSRF error, no handler runs and the leads
\* table is not written, whatever token the request carries.
C1_CsrfGuardsLeadMutation ==
    (RoleGated(last) /\ MutatingAdminRoute(last) /\ ~CsrfMatches(last)) =>
        /\ last.res.status = 403
        /\ last.res.error = CsrfInvalid
        /\ ~HandlerRan(last)
        /\ ~last.wrote

\* a mutating admin request with a valid administrator token and a CSRF
\* header that does not match was rejected
C1_Witness ==
    /\ RoleGated(last) /\ MutatingAdminRoute(last)
    /\ IsSome(last.csrfHeader) /\ ~CsrfMatches(last)
    /\ \E t \in Range(last.header.token) : Valid(t) /\ t.payload.role = Some("admin")
    /\ last.res.status = 403
    /\ 1 \in DOMAIN leads

\* C2: whenever adminMiddleware ran for a request, authMiddleware ran before
\* it in the same chain and had already set req.user from a verified token.
C2_RoleCheckAfterVerifiedIdentity ==
    \A i \in 1..Len(last.ran) :
        last.ran[i].mw = "adminMiddleware" =>
            /\ last.ran[i].authed
            /\ \E j \in 1..(i - 1) : last.ran[j].mw = "authMiddleware"
            /\ IsSome(last.user)
            /\ \E t \in Tokens(last) : Valid(t) /\ last.user = Some(t.payload)

\* the role check ran and refused a verified non-administrator
C2_Witness ==
    /\ Ran(last, "adminMiddleware")
    /\ last.res.status = 403
    /\ last.res.error = AdminDenied

\* C3 (as stated): a token-protected route that gets past the CSRF check and
\* is given no token, or only tokens that fail verification, answers 401, and
\* neither the role check nor a handler runs and no lead is written.
C3_NoValidTokenIs401 ==
    (TokenProtected(last) /\ CsrfPassed(last) /\ \A t \in Tokens(last) : ~Valid(t)) =>
        /\ last.res.status = 401
        /\ ~Ran(last, "adminMiddleware")
        /\ ~HandlerRan(last)
        /\ ~last.wrote

\* every token the request carries is valid and names a non-administrator
NonAdminTokensOnly(l) ==
    /\ Tokens(l) # {}
    /\ \A t \in Tokens(l) : Valid(t) /\ t.payload.role # Some("admin")

\* C4 (as stated): a role-gated route given a valid, unexpired token of a
\* non-administrator answers with the authorization error.
C4_NonAdminGetsAuthorizationError ==
    (RoleGated(last) /\ NonAdminTokensOnly(last)) =>
        /\ last.res.status = 403
        /\ last.res.error = AdminDenied
        /\ ~HandlerRan(last)

\* C4 (amended): such a request is answered 403, never 401, and no handler
\* runs and no lead is written; the error is the authorization error, except
\* on a mutating route whose CSRF check fails first, where it is the CSRF error.
C4_NonAdminIs403 ==
    (RoleGated(last) /\ NonAdminTokensOnly(last)) =>
        /\ last.res.status = 403
        /\ last.res.error = IF CsrfPassed(last) THEN AdminDenied ELSE CsrfInvalid
        /\ ~HandlerRan(last)
        /\ ~last.wrote

\* a non-administrator with a matching CSRF token was refused a mutation
C4_Witness ==
    /\ MutatingAdminRoute(last) /\ RoleGated(last)
    /\ NonAdminTokensOnly(last)
    /\ CsrfMatches(last)
    /\ last.res.error = AdminDenied

\* C5: a token-protected route given only tokens that the server signed but
\* whose expiry instant has been reached (now >= exp) rejects the request:
\* req.user stays unset, the answer is 401 or 403, and no handler runs.
C5_ExpiredTokenRejected ==
    (/\ TokenProtected(last)
     /\ Tokens(last) # {}
     /\ \A t \in Tokens(last) : SignedByServer(t) /\ Expired(t)) =>
        /\ last.user = None
        /\ last.res.status \in {401, 403}
        /\ ~HandlerRan(last)
        /\ ~last.wrote

\* a correctly signed token was refused at the very second it expires
C5_Witness ==
    /\ TokenProtected(last)
    /\ \E t \in Tokens(last) : SignedByServer(t) /\ (now \div 1000) = t.payload.exp
    /\ \A t \in Tokens(last) : SignedByServer(t) /\ Expired(t)
    /\ last.user = None
    /\ last.res.status \in {401, 403}

LoginReq(ip, identity, password) ==
    Req(ip, "POST", "/api/auth/login", None, None, None, None, 0,
        Body(identity, password, "", <<>>, <<>>))

IsLogin(l) == l.method = "POST" /\ l.path = "/api/auth/login"

\* C6: for every stored account, a login with its identity and its password
\* that the rate limiter lets through answers 200 with a token that verifies
\* under the server's secret and whose identity and role are the stored ones.
C6_LoginIssuesVerifiableToken ==
    phase = "serving" =>
        \A u \in users, ip \in IPs :
            \A c \in {Handle(LoginReq(ip, u.email, u.password.of))} :
                Get(c.res).status # 429 =>
                    /\ Get(c.res).status = 200
                    /\ IsSome(Get(c.res).token)
                    /\ \E p \in Range(JwtVerify(Get(Get(c.res).token),
                                                SigningSecret(variant, env), now)) :
                          /\ p.id = u.id
                          /\ p.identity = u.email
                          /\ p.role = u.role

\* the administrator logged in and holds a token that proves the stored role
C6_Witness ==
    /\ IsLogin(last)
    /\ last.res.status = 200
    /\ last.res.token = stored
    /\ \E u \in users, t \in Range(stored) :
          /\ u.email = last.identity
          /\ u.role = Some("admin")
          /\ Valid(t)
          /\ t.payload.role = u.role

\* login bodies that pass validation in both servers
WellFormedIdentities == {i \in IdentityChoices : IsEmail(i)}
WellFormedPasswords == {p \in LoginPasswordChoices : Len(p) >= 6}

\* C7: a login with an identity no account has and a login with a stored
\* identity and a wrong password, both with well-formed bodies and sent in the
\* same state, get the same response, field by field: the 401 of the login
\* handler (or the limiter's 429), with no token and no user in it.
C7_FailedLoginsIndistinguishable ==
    phase = "serving" =>
        \A ip \in IPs, u \in users, i \in WellFormedIdentities,
           p \in WellFormedPasswords, q \in WellFormedPasswords :
            (p # u.password.of /\ \A w \in users : w.email # i) =>
                \A c \in {Handle(LoginReq(ip, u.email, p))},
                   d \in {Handle(LoginReq(ip, i, q))} :
                    /\ c.res = d.res
                    /\ Get(c.res).status \in {401, 429}
                    /\ Get(c.res).token = None /\ Get(c.res).user = None

\* both kinds of failed login are possible and the last one served was of
\* one kind: an unknown identity, answered 401
C7_Witness ==
    /\ IsLogin(last)
    /\ last.res.status = 401
    /\ last.identity \in WellFormedIdentities
    /\ \A w \in users : w.email # last.identity
    /\ \E u \in users, p \in WellFormedPasswords : p # u.password.of

\* C9 (as stated): no request is served while the signing secret is missing
\* or shorter than 32 characters, and every key a token is signed or verified
\* with is the configured secret, of at least 32 characters.
C9_NoServiceWithoutStrongSecret ==
    /\ phase = "serving" => Len(env.JWT_SECRET) >= MinSecretLen
    /\ \A k \in Range(last.key) : k = env.JWT_SECRET /\ Len(k) >= MinSecretLen

AdminConfigured == ~Falsy(env.ADMIN_EMAIL) /\ ~Falsy(env.ADMIN_PASSWORD)

\* the account the startup code creates from the configured credentials
IsBootstrapped(u) ==
    /\ u.email = env.ADMIN_EMAIL
    /\ u.role = Some("admin")
    /\ u.password = BcryptHash(env.ADMIN_PASSWORD, BcryptRounds)

\* C10 (as stated): the second server listens only when the administrator
\* e-mail and password are configured and the password satisfies the policy.
C10_ServingImpliesPolicy ==
    (variant = "v2" /\ phase = "serving") =>
        AdminConfigured /\ PasswordOk(env.ADMIN_PASSWORD)

\* C10 (amended): the second server listens only when the administrator
\* e-mail and password are configured; an account with that e-mail then
\* exists, and an account made from the configured password has a password
\* that satisfies the policy. It exits only when the secret or the
\* credentials are missing, or the password fails the policy and no account
\* with the e-mail is on file.
C10_BootstrapPolicy ==
    /\ (variant = "v2" /\ phase = "serving") =>
          /\ AdminConfigured
          /\ \E u \in users : u.email = env.ADMIN_EMAIL
          /\ \A u \in users : IsBootstrapped(u) => PasswordOk(env.ADMIN_PASSWORD)
    /\ phase = "exited" =>
          /\ variant = "v2"
          /\ \/ Len(env.JWT_SECRET) < MinSecretLen
             \/ ~AdminConfigured
             \/ /\ ~PasswordOk(env.ADMIN_PASSWORD)
                /\ \A u \in users : u.email # env.ADMIN_EMAIL

\* the second server listens with an administrator made from a configured
\* password that satisfies the policy, and that administrator logged in
C10_Witness ==
    /\ variant = "v2" /\ phase = "serving"
    /\ PasswordOk(env.ADMIN_PASSWORD)
    /\ \E u \in users : IsBootstrapped(u) /\ u.id = 1
    /\ IsLogin(last) /\ last.identity = env.ADMIN_EMAIL /\ last.res.status = 200

\* the limiter refused the request: it was the last middleware to run
RejectedBy(l, name) ==
    /\ l.res.status = 429
    /\ Len(l.ran) > 0
    /\ l.ran[Len(l.ran)].mw = name

CountOf(store, name, ip) ==
    IF IsSome(store[name][ip]) THEN Get(store[name][ip]).count ELSE 0

\* C8: each limiter counts the requests of a client in a fixed window that
\* begins with the first of them: a request that finds fewer than max
\* requests counted passes the limiter, one that finds max or more is
\* answered 429 without reaching a handler; when the clock reaches the
\* window's reset time the count is dropped, so the next request finds none.
C8_FixedWindowLimit ==
    [][\A name \in LimiterNames, ip \in IPs :
          LET before == CountOf(hits, name, ip)
              lim == Limiter(name)
          IN  /\ (now' = now /\ hits'[name][ip] # hits[name][ip]) =>
                    /\ last'.ip = ip
                    /\ Ran(last', name)
                    /\ CountOf(hits', name, ip) = before + 1
                    /\ Get(hits'[name][ip]).resetTime =
                          IF before = 0 THEN now + lim.windowMs
                          ELSE Get(hits[name][ip]).resetTime
                    /\ before < lim.max => ~RejectedBy(last', name)
                    /\ before >= lim.max =>
                          /\ RejectedBy(last', name)
                          /\ ~HandlerRan(last')
                          /\ ~last'.wrote
              /\ (now' = now /\ last' # last /\ Ran(last', name) /\ last'.ip = ip) =>
                    hits'[name][ip] # hits[name][ip]
              /\ now' # now =>
                    hits'[name][ip] =
                        IF IsSome(hits[name][ip]) /\ now' >= Get(hits[name][ip]).resetTime
                        THEN None
                        ELSE hits[name][ip]
              /\ IsSome(hits'[name][ip]) => now' < Get(hits'[name][ip]).resetTime
      ]_vars

\* in a window that began after an earlier one was over, a limiter refused
\* the request that followed max counted ones
C8_Witness ==
    \E name \in LimiterNames, ip \in IPs :
        /\ RejectedBy(last, name)
        /\ last.ip = ip
        /\ CountOf(hits, name, ip) = Limiter(name).max + 1
        /\ now >= Limiter(name).windowMs
        /\ Get(hits[name][ip]).resetTime = now + Limiter(name).windowMs

\* the checks a route may put before its handler
CheckNames == {"csrfProtection", "authenticateToken", "authMiddleware",
               "adminMiddleware"}

\* C12 (as stated): whenever a CSRF check, a token verification or a role
\* check ran for a request, a rate limiter had counted the request before.
C12_LimiterBeforeChecks ==
    \A i \in 1..Len(last.ran) :
        last.ran[i].mw \in CheckNames =>
            \E j \in 1..(i - 1) : last.ran[j].mw \in LimiterNames

\* C13: when a request to a token-protected route of the second server
\* carries a token in the Authorization header, req.user and the answer are
\* those of the header token, whatever the cookie holds: a valid header token
\* attaches its payload, a failing one is answered 401 with req.user unset.
C13_HeaderTokenWins ==
    (variant = "v2" /\ TokenProtected(last) /\ CsrfPassed(last)) =>
        \A t \in Range(last.header.token) :
            IF Valid(t)
            THEN last.user = Some(t.payload) /\ last.res.status # 401
            ELSE last.user = None /\ last.res.status = 401

\* a failing header token was refused although the cookie held a valid one
C13_Witness ==
    /\ variant = "v2" /\ TokenProtected(last)
    /\ \E t \in Range(last.header.token) : ~Valid(t)
    /\ \E t \in Range(last.cookie.token) : Valid(t)
    /\ last.res.status = 401
    /\ last.user = None

\* lifetimes a token may be issued with, in seconds
TtlChoices == {1, TokenTtlV1, TokenTtlV2}

RefusedBy(l) == CHOOSE name \in LimiterNames : RejectedBy(l, name)

RemainingSeconds(l) ==
    CeilDiv(Get(hits[RefusedBy(l)][l.ip]).resetTime - now, 1000)

\* the hints a refusal may carry under the name retry-after: the body's
\* retryAfter field and the Retry-After header
RetryAfterHints(l) == Range(l.res.retryAfter) \cup Range(l.res.retryAfterHeader)

\* C16 (as stated): a request refused by a limiter is answered 429 with a
\* retryAfter hint that is greater than 0 and equals the time remaining in
\* the current window.
C16_RetryAfterIsRemainingTime ==
    last.res.status = 429 =>
        \E h \in RetryAfterHints(last) : h > 0 /\ h = RemainingSeconds(last)

\* C16 (amended): a request refused by a limiter is answered 429 with a
\* RateLimit-Reset header that is greater than 0 and equals the time to the
\* window's reset in whole seconds; the body has no retryAfter field; the
\* Retry-After header is greater than 0 and is either that remaining time or
\* the full window length.
C16_ResetHeaderIsRemainingTime ==
    last.res.status = 429 =>
        /\ \E name \in LimiterNames : RejectedBy(last, name)
        /\ last.res.rateLimitReset = Some(RemainingSeconds(last))
        /\ RemainingSeconds(last) > 0
        /\ last.res.retryAfter = None
        /\ \E h \in Range(last.res.retryAfterHeader) :
              /\ h > 0
              /\ h \in {RemainingSeconds(last),
                        CeilDiv(Limiter(RefusedBy(last)).windowMs, 1000)}

\* a lead submission refused in the middle of its one-hour window: 45 minutes
\* remain, and the Retry-After header of library version 6 says one hour
C16_Witness ==
    /\ last.res.status = 429
    /\ now = 15 * Minute
    /\ last.res.rateLimitReset = Some(45 * 60)
    /\ last.res.retryAfterHeader = Some(60 * 60)

\* the limiters a route counts a request in
TiersOf(l) == {name \in LimiterNames : Ran(l, name)}

LeadTiers == {"leadSubmissionLimiter", "leadsLimiter"}

C18_AccountsFixedAfterStartup ==
    [][/\ phase = "serving" => users' = users
       /\ (phase = "boot" /\ AdminExists(users, env)) => users' = users
      ]_vars

\* POST /api/leads reached its handler and stored a lead
LeadCreated(l) ==
    /\ l.method = "POST" /\ l.path = "/api/leads"
    /\ l.wrote

\* C19: when a lead is created with WEBHOOK_URL configured, the payload is
\* sent to that URL and the lead request is answered 201; the outbound
\* request carries X-Webhook-Signature (the HMAC of its body under
\* WEBHOOK_SECRET) and X-Webhook-Timestamp when WEBHOOK_SECRET is configured,
\* and neither of the two when it is not.
C19_SignedExactlyWithSecret ==
    (LeadCreated(last) /\ Configured(deploy.WEBHOOK_URL)) =>
        /\ last.res.status = 201
        /\ Len(last.webhook) >= 1
        /\ \A i \in 1..Len(last.webhook) :
              LET w == last.webhook[i]
              IN  /\ w.url = Get(deploy.WEBHOOK_URL)
                  /\ IF Configured(deploy.WEBHOOK_SECRET)
                     THEN /\ w.headers.signature =
                                Some(Hmac(w.body, Get(deploy.WEBHOOK_SECRET)))
                          /\ IsSome(w.headers.timestamp)
                     ELSE /\ w.headers.signature = None
                          /\ w.headers.timestamp = None

\* without a secret the payload went out unsigned and the lead was accepted
C19_Witness ==
    /\ LeadCreated(last)
    /\ Configured(deploy.WEBHOOK_URL) /\ ~Configured(deploy.WEBHOOK_SECRET)
    /\ Len(last.webhook) = 1
    /\ last.webhook[1].headers.signature = None
    /\ last.webhook[1].body.id \in DOMAIN leads
    /\ last.res.status = 201

\* C20: a lead submission sends at most one webhook request, and only when
\* it has stored a lead; whatever becomes of the delivery (the endpoint
\* answers ok, answers with an error status, or cannot be reached), the lead
\* is on file as new and the submission is answered 201.
C20_DeliveryFailureIsolated ==
    /\ Len(last.webhook) <= 1
    /\ Len(last.webhook) = 1 =>
          /\ LeadCreated(last)
          /\ last.res.status = 201
          /\ last.webhook[1].body.id \in DOMAIN leads
          /\ leads[last.webhook[1].body.id] = "new"
    /\ (LeadCreated(last) /\ variant = "v2") =>
          /\ last.res.status = 201
          /\ Len(last.webhook) = IF Configured(deploy.WEBHOOK_URL) THEN 1 ELSE 0

\* the endpoint could not be reached: one attempt was made, the lead is on
\* file and the submission was answered 201
C20_Witness ==
    /\ LeadCreated(last)
    /\ Len(last.webhook) = 1
    /\ last.webhook[1].outcome = "neterr"
    /\ last.webhook[1].log = "error"
    /\ last.res.status = 201
    /\ leads[last.webhook[1].body.id] = "new"

\* the requests of the last call that were sent for the page (not the
\* client's own GET /api/csrf-token requests)
PageCalls == SelectSeq(client.calls, LAMBDA k : k.path # "/api/csrf-token")

\* C11 (as stated): the answer to a CSRF rejection differs from the answer
\* to a wrong-role rejection and to an authentication failure, and the
\* client fetches a new CSRF token and sends a request again only when the
\* first answer was a CSRF rejection.
C11_RetryOnlyOnCsrfRejection ==
    /\ \A i \in 1..Len(client.calls) :
          client.calls[i].by = "csrfProtection" /\ client.calls[i].status >= 400 =>
              \A j \in 1..Len(client.calls) :
                  client.calls[j].by \in {"authMiddleware", "adminMiddleware"} =>
                      client.calls[j].status # client.calls[i].status
    /\ Len(PageCalls) >= 2 =>
          PageCalls[1].by = "csrfProtection"

\* the CSRF guard answered the request itself: a refusal
RefusedByCsrf(l) ==
    /\ Len(l.ran) > 0
    /\ l.ran[Len(l.ran)].mw = "csrfProtection"

\* the client's fetch of a CSRF token did not reach the server
FailedCsrfFetch(k) == k.path = "/api/csrf-token" /\ k.status = 0

\* the client put X-CSRF-Token on a request exactly when the method it was
\* given is, in upper case, one of POST, PUT, PATCH, DELETE (and, for these,
\* unless its fetch of a token had just failed)
HeaderExactlyOnMutatingMethods ==
    \A i \in 1..Len(client.calls) :
        /\ IsSome(client.calls[i].csrf) =>
              ToUpperCase(client.calls[i].method) \in MutatingMethods
        /\ (ToUpperCase(client.calls[i].method) \in MutatingMethods
               /\ ~IsSome(client.calls[i].csrf)) =>
              (i > 1 /\ FailedCsrfFetch(client.calls[i - 1]))

C22_LogoutInvalidatesNothing ==
    [][/\ (last'.path = "/api/auth/logout" /\ last' # last) =>
            /\ last'.res.status = 200
            /\ users' = users /\ env' = env /\ now' = now /\ stored' = stored
            /\ leads' = leads
            /\ \A t \in Range(stored) :
                  JwtVerify(t, SigningSecret(variant, env), now)' =
                      JwtVerify(t, SigningSecret(variant, env), now)
       /\ (TokenProtected(last') /\ CsrfPassed(last')
             /\ (Ran(last', "authMiddleware") \/ Ran(last', "authenticateToken"))) =>
            \A t \in Range(last'.header.token) :
                (SignedByServer(t) /\ (now' \div 1000) < t.payload.exp) =>
                    /\ last'.user = Some(t.payload)
                    /\ last'.res.status # 401
                    /\ last'.res.error # "Token inválido ou expirado"
      ]_vars

\* right after a logout the stored token still passes verification
C22_Witness ==
    /\ last.path = "/api/auth/logout"
    /\ last.res.status = 200
    /\ \E t \in Range(stored) :
          IsSome(JwtVerify(t, SigningSecret(variant, env), now))

\* the step is a call of authenticatedFetch that sent something
FetchStep ==
    \/ client'.calls # client.calls
    \/ last' # last /\ last'.path \in {f[2] : f \in FetchChoices}

\* C26 (as stated): whenever the server answers 401 to a request made through
\* authenticatedFetch, the stored token is removed, the browser is sent to
\* /login and the call fails with "Sessão expirada": no 401 response is
\* returned to the caller, and afterwards isAuthenticated() is false.
C26_Every401EndsTheSession ==
    [][FetchStep =>
          /\ client'.returned # 401
          /\ \A i \in 1..Len(client'.calls) :
                client'.calls[i].status = 401 =>
                    /\ stored' = None
                    /\ client'.outcome = "Sessão expirada"
                    /\ client'.location = "/login"
      ]_vars

\* C23: authenticatedFetch sends the request at most twice; the second time
\* only after a 403 on the first, of a mutating method, with a CSRF token
\* fetched from the server in between (the cache was cleared), and with the
\* same method and path; the response of the retry is what the caller gets,
\* whatever its status.
C23_OneRetryAfter403 ==
    /\ Len(PageCalls) <= 2
    /\ Len(PageCalls) = 2 =>
          /\ PageCalls[1].status = 403
          /\ needsCSRF(PageCalls[1].method)
          /\ PageCalls[2].method = PageCalls[1].method
          /\ PageCalls[2].path = PageCalls[1].path
          /\ client.calls[Len(client.calls)] = PageCalls[2]
          /\ client.calls[Len(client.calls) - 1].path = "/api/csrf-token"
          /\ client.calls[Len(client.calls) - 1].status = 200
          /\ IsSome(PageCalls[2].csrf)
          /\ client.outcome = "response"
          /\ client.returned = PageCalls[2].status

\* a retry whose response, a 404, went back to the caller
C23_Witness ==
    /\ Len(PageCalls) = 2
    /\ PageCalls[2].status = 404
    /\ client.returned = 404

\* C24: while a CSRF token is cached, authenticatedFetch uses that token on
\* a mutating request without asking the server for one, and the cache
\* changes only when such a request is answered 403; a failed fetch of a
\* token yields none (the next request goes out without one) and, when it
\* was the last thing the call did, leaves the cache empty.
C24_TokenCachedUntil403 ==
    [][FetchStep =>
          /\ (IsSome(client.csrfToken) /\ Len(client'.calls) > 0) =>
                /\ client'.calls[1].path # "/api/csrf-token"
                /\ needsCSRF(client'.calls[1].method) =>
                      client'.calls[1].csrf = client.csrfToken
                /\ client'.csrfToken # client.csrfToken =>
                      /\ client'.calls[1].status = 403
                      /\ needsCSRF(client'.calls[1].method)
          /\ \A i \in 1..Len(client'.calls) :
                FailedCsrfFetch(client'.calls[i]) =>
                    IF i = Len(client'.calls)
                    THEN client'.csrfToken = None
                    ELSE client'.calls[i + 1].csrf = None
      ]_vars

\* a mutating request went out with the cached token, with no fetch of a
\* token before it, and was accepted
C24_Witness ==
    /\ Len(client.calls) = 1
    /\ needsCSRF(client.calls[1].method)
    /\ client.calls[1].csrf = client.csrfToken
    /\ IsSome(client.csrfToken)
    /\ client.calls[1].status = 200

\* C30 (as stated): authenticatedFetch never sends a POST, PUT, PATCH or
\* DELETE request without an X-CSRF-Token header, also when fetching the
\* token failed; and it sends nothing when no token is stored.
C30_MutatingRequestsCarryToken ==
    /\ \A i \in 1..Len(client.calls) :
          client.calls[i].path # "/api/csrf-token"
            /\ ToUpperCase(client.calls[i].method) \in MutatingMethods =>
              IsSome(client.calls[i].csrf)
    /\ client.outcome = "Token não encontrado" => client.calls = <<>>

\* C30 (amended): authenticatedFetch sends a POST, PUT, PATCH or DELETE
\* request without an X-CSRF-Token header only when its fetch of a CSRF token
\* had just failed, and the guarded route then refuses the request with 403;
\* a retry always carries a token; and it sends nothing when no token is
\* stored.
C30_TokenUnlessFetchFailed ==
    /\ \A i \in 1..Len(client.calls) :
          (client.calls[i].path # "/api/csrf-token"
             /\ ToUpperCase(client.calls[i].method) \in MutatingMethods
             /\ ~IsSome(client.calls[i].csrf)) =>
              /\ i = 2
              /\ FailedCsrfFetch(client.calls[1])
              /\ client.calls[i].status = 403
              /\ client.calls[i].by = "csrfProtection"
    /\ client.outcome = "Token não encontrado" => client.calls = <<>>

\* the fetch of a token failed, the PATCH went out without the header and
\* was refused; the second fetch succeeded and the retry carried the token
C30_Witness ==
    /\ Len(client.calls) = 4
    /\ FailedCsrfFetch(client.calls[1])
    /\ client.calls[2].csrf = None
    /\ client.calls[2].status = 403
    /\ IsSome(client.calls[4].csrf)
    /\ client.calls[4].status = 200

\* C25 (as stated): ProtectedRoute shows its children only after
\* authentication and authorization were checked: not while the validation
\* is loading, not without a stored token or after getCurrentUser failed, and
\* not to a user who lacks the role the page is for; on /admin and
\* /admin/leads, the administrative pages, that role is admin.
C25_ChildrenOnlyIfAuthorized ==
    client.view = "children" =>
        /\ IsSome(stored)
        /\ ~client.error
        /\ IsSome(client.user)
        /\ client.location \in {"/admin", "/admin/leads"} =>
              Get(client.user).role = Some("admin")

\* C27: a lead submission whose form fails validation is answered 400 with
\* the failing fields as details, stores no lead and dispatches no webhook;
\* a lead is stored only by a submission whose form passed validation, and a
\* webhook is dispatched only by a submission that stored its lead, for that
\* lead.
C27_InvalidLeadHasNoEffect ==
    /\ (last.method = "POST" /\ last.path = "/api/leads" /\ HandlerRan(last)
          /\ last.leadErrors # {}) =>
          /\ last.res.status = 400
          /\ last.res.error = "Dados inválidos"
          /\ last.res.details = last.leadErrors
          /\ ~last.wrote
          /\ last.webhook = <<>>
    /\ last.wrote =>
          /\ LeadCreated(last)
          /\ last.leadErrors = {}
    /\ \A i \in 1..Len(last.webhook) :
          /\ LeadCreated(last)
          /\ last.webhook[i].body.id \in DOMAIN leads
          /\ last.webhook[i].body.id = nextLeadId - 1

\* a form with a short number was refused with that field named, while an
\* earlier lead is stored and a webhook is configured
C27_Witness ==
    /\ last.path = "/api/leads"
    /\ last.res.status = 400
    /\ last.res.details = {"whatsapp"}
    /\ Configured(deploy.WEBHOOK_URL)
    /\ leads # <<>>

\* a status update or a deletion that reached its handler or validator
LeadUpdate(l) ==
    /\ l.method = "PATCH"
    /\ l.path \in {"/api/admin/leads/:id/status", "/api/leads/:id/status"}
    /\ HandlerRan(l) \/ Ran(l, "validatePatchV1")
LeadDelete(l) ==
    /\ l.method = "DELETE" /\ l.path = "/api/admin/leads/:id"
    /\ HandlerRan(l)

\* C29: every stored lead has status new, contacted or converted, whatever
\* submissions, status updates and deletions were served; a status update
\* naming any other value is answered 400 and a status update or deletion
\* naming a lead that does not exist is answered 404, and neither changes
\* any lead; an accepted update changes the named lead only, an accepted
\* deletion removes the named lead only.
C29_LeadStatusStaysInEnum ==
    [][/\ \A id \in DOMAIN leads' : leads'[id] \in LeadStatuses
       /\ (last' # last /\ LeadUpdate(last') /\ last'.status \notin LeadStatuses) =>
             /\ last'.res.status = 400
             /\ leads' = leads
       /\ (last' # last /\ (LeadUpdate(last') \/ LeadDelete(last'))
             /\ last'.id \notin DOMAIN leads
             /\ (LeadUpdate(last') => last'.status \in LeadStatuses)) =>
             /\ last'.res.status = 404
             /\ leads' = leads
       /\ (last' # last /\ LeadUpdate(last') /\ last'.res.status = 200) =>
             /\ last'.id \in DOMAIN leads
             /\ leads' = [leads EXCEPT ![last'.id] = last'.status]
       /\ (last' # last /\ LeadDelete(last') /\ last'.res.status = 200) =>
             /\ last'.id \in DOMAIN leads
             /\ DOMAIN leads' = DOMAIN leads \ {last'.id}
             /\ \A id \in DOMAIN leads' : leads'[id] = leads[id]
      ]_vars

\* an update with status "archived" was refused with 400 while a lead
\* updated before stands as contacted
C29_Witness ==
    /\ LeadUpdate(last)
    /\ last.status = "archived"
    /\ last.res.status = 400
    /\ \E id \in DOMAIN leads : leads[id] = "contacted"

\* the limiters registered on POST /api/auth/login
LoginLimiters == Range(Chain("POST", "/api/auth/login")) \cap LimiterNames

\* C28: from one client IP at most max login attempts per window reach
\* credential verification: the login limiter is the first thing to run on
\* a login request, and once max attempts were counted in the window every
\* further one is answered 429 without validation, password comparison or
\* token, also when it carries the correct password.
C28_LoginAttemptsCapped ==
    [][(last' # last /\ IsLogin(last') /\ now' = now) =>
          /\ LoginLimiters # {}
          /\ last'.ran[1].mw \in LoginLimiters
          /\ \A name \in LoginLimiters :
                LET before == CountOf(hits, name, last'.ip)
                IN  /\ Ran(last', name) =>
                          CountOf(hits', name, last'.ip) = before + 1
                    /\ before >= Limiter(name).max =>
                          /\ RejectedBy(last', name)
                          /\ ~HandlerRan(last')
                          /\ ~Ran(last', "validateLoginV1")
                          /\ last'.res.token = None
                          /\ stored' = stored
                    /\ HandlerRan(last') =>
                          CountOf(hits', name, last'.ip) <= Limiter(name).max
      ]_vars

\* the administrator logged in before; a further attempt with the same,
\* correct password is answered 429 by the login limiter
C28_Witness ==
    /\ IsLogin(last)
    /\ last.identity = AdminEmail
    /\ IsSome(stored)
    /\ \E name \in LoginLimiters :
          /\ RejectedBy(last, name)
          /\ CountOf(hits, name, last.ip) = Limiter(name).max + 1

\* C21 (as stated): webhook delivery never blocks the triggering request:
\* the response of a valid lead submission does not wait for the webhook
\* call to complete, so while the call is still in flight (the endpoint has
\* not answered) the submission has its 201 already.
C21_ResponseDoesNotAwaitWebhook ==
    Pending => last.res.status = 201

====
